---- MODULE Spec2Model ----
(***************************************************************************)
(* Email triage and response assistant: the classifier, the response loop  *)
(* and the human-in-the-loop (HITL) interrupt/resume protocol of           *)
(* src/email_assistant, as a state machine over workflow threads.          *)
(*                                                                         *)
(* One action is one step of the graph runtime (one node execution, with   *)
(* the routing that follows it) or one call of the HTTP entry point.       *)
(* A node that calls interrupt() is executed again from its first line on  *)
(* every resume; the verdicts already given are replayed in call order.    *)
(***************************************************************************)
EXTENDS Integers, Sequences, FiniteSets, TLC

\* ------------------------------------------------------------------ bounds
MaxProposed == 2     \* tool calls proposed by the tool-selection LLM, all turns and threads together
MaxRequests == 3     \* resume calls the entry point passes on to the graph, all threads together
MaxFailures == 1     \* failed LLM invocations, all threads together

\* --------------------------------------------------------------- constants
Threads == {1, 2}
\* the thread the single-run specifications follow; the other id stays unused
MainThreads == {1}
None == "None"
END == "__end__"

HITL == "hitl"
PLAIN == "plain"

Classifications == {"respond", "ignore", "notify"}

TRIAGE_NS == "triage_preferences"
RESPONSE_NS == "response_preferences"
CAL_NS == "cal_preferences"
Namespaces == {TRIAGE_NS, RESPONSE_NS, CAL_NS}

DEFAULT_TRIAGE_INSTRUCTIONS == "default_triage"
DEFAULT_RESPONSE_PREFERENCES == "default_response"
DEFAULT_CAL_PREFERENCES == "default_cal"
NO_EXISTING == "No existing preferences"

\* texts the preference summarizer (an LLM) may return
LLMTexts == {"profile_a"}

\* tools registered with the HITL agent and with the plain agent
tools_by_name == {"write_email", "schedule_meeting", "check_calendar_availability", "Question", "Done"}
TOOLS == {"write_email", "check_calendar_availability", "schedule_meeting", "Done"}

hitl_tools == {"write_email", "schedule_meeting", "Question"}

VerdictTypes == {"accept", "edit", "ignore", "response"}

\* what may arrive from outside the declared enumerations: a tool name the LLM
\* made up, a verdict type outside HumanResponse.type, a classification outside
\* RouterSchema.classification
UNREGISTERED_TOOL == "unregistered_tool"
UNKNOWN_TYPE == "unknown_type"
INVALID_CLASSIFICATION == "invalid_classification"

ORIG == "orig_args"
EDITED == "edited_args"
FEEDBACK == "feedback_text"

\* ----------------------------------------------------------------- values
Msg(role, content, tcs, tcid, id) ==
  [role |-> role, content |-> content, tool_calls |-> tcs, tool_call_id |-> tcid, id |-> id]

\* ids are positive numbers; 0 stands for "no id"
UserMsg(content) == Msg("user", content, <<>>, 0, 0)
ToolMsg(content, tcid) == Msg("tool", content, <<>>, tcid, 0)
AIMsg(id, tcs) == Msg("ai", <<>>, tcs, 0, id)

ToolCall(name, args, id) == [name |-> name, args |-> args, id |-> id]

\* the observation a tool returns is a text built from its arguments
Invoke(name, args) == <<"observation", name, args>>

\* a human verdict; the payload of edit is the replacement arguments, that of
\* response is the feedback text
Verdict(type) ==
  [type |-> type,
   args |-> IF type = "edit" THEN EDITED ELSE IF type = "response" THEN FEEDBACK ELSE None]

Verdicts == {Verdict(ty) : ty \in VerdictTypes}

\* ------------------------------------------------------------ memory store
StoreGet(st, ns) == st[ns]

StorePut(st, ns, value) == [st EXCEPT ![ns] = value]

\* get_memory: the stored profile, or the default, which is then stored
get_memory_value(st, ns, default_content) ==
  IF StoreGet(st, ns) # None THEN StoreGet(st, ns) ELSE default_content

\* faulty variant: the default is returned but not stored
get_memory_store_unseeded(st, ns, default_content) == st

get_memory_store(st, ns, default_content) ==
  IF StoreGet(st, ns) # None THEN st ELSE StorePut(st, ns, default_content)

\* update_memory: the profile the summarizer was shown, and the store after the put
update_memory_base(st, ns) ==
  IF StoreGet(st, ns) # None THEN StoreGet(st, ns) ELSE NO_EXISTING

\* faulty variant: a stored profile is kept, the text is stored only where none was
update_memory_keeping(st, ns, text) == IF StoreGet(st, ns) # None THEN st ELSE StorePut(st, ns, text)

update_memory(st, ns, text) == StorePut(st, ns, text)

UpdateEvent(st, ns, id) ==
  [ev |-> "update", ns |-> ns, id |-> id, name |-> None, args |-> update_memory_base(st, ns)]

ExecEvent(tc, args) == [ev |-> "exec", ns |-> None, id |-> tc.id, name |-> tc.name, args |-> args]

ReviewEvent(tc) == [ev |-> "review", ns |-> None, id |-> tc.id, name |-> tc.name, args |-> tc.args]

VerdictEvent(tc, v) == [ev |-> "verdict", ns |-> None, id |-> tc.id, name |-> tc.name, args |-> v.type]

ResultEvent(m) == [ev |-> "result", ns |-> None, id |-> m.tool_call_id, name |-> None, args |-> None]

NodeEvent(node) == [ev |-> "node", ns |-> None, id |-> 0, name |-> node, args |-> None]

\* ------------------------------------------------- review requests (HITL)
\* faulty variant: every action is allowed for every reviewable tool kind
RequestConfigOpen(name) ==
  [allow_ignore |-> TRUE, allow_respond |-> TRUE, allow_edit |-> TRUE, allow_accept |-> TRUE]

\* allowed actions configured for a reviewable tool kind
RequestConfig(name) ==
  IF name \in {"write_email", "schedule_meeting"}
  THEN [allow_ignore |-> TRUE, allow_respond |-> TRUE, allow_edit |-> TRUE, allow_accept |-> TRUE]
  ELSE [allow_ignore |-> TRUE, allow_respond |-> TRUE, allow_edit |-> FALSE, allow_accept |-> FALSE]

Request(tc) ==
  [action |-> tc.name, args |-> tc.args, config |-> RequestConfig(tc.name), id |-> tc.id]

TriageAction(classification) ==
  IF classification = "notify" THEN "Email Assistant: notify"
  ELSE IF classification = "respond" THEN "Email Assistant: respond"
  ELSE "Email Assistant: ignore"

\* faulty variant: the notification review also offers accept
TriageRequestOpen(classification) ==
  [action |-> TriageAction(classification), args |-> "no_args",
   config |-> [allow_ignore |-> TRUE, allow_respond |-> TRUE, allow_edit |-> FALSE, allow_accept |-> TRUE],
   id |-> 0]

TriageRequest(classification) ==
  [action |-> TriageAction(classification), args |-> "no_args",
   config |-> [allow_ignore |-> TRUE, allow_respond |-> TRUE, allow_edit |-> FALSE, allow_accept |-> FALSE],
   id |-> 0]

_get_allowed_actions(config) ==
  (IF config.allow_accept THEN <<"accept">> ELSE <<>>) \o
  (IF config.allow_edit THEN <<"edit">> ELSE <<>>) \o
  (IF config.allow_ignore THEN <<"ignore">> ELSE <<>>) \o
  (IF config.allow_respond THEN <<"respond">> ELSE <<>>)

\* ------------------------------------------------------ interrupt() replay
\* One execution of a node is folded over an accumulator:
\*   result   messages the node has produced so far (lost unless it completes)
\*   goto     the node's routing decision
\*   store    the Memory Store (writes take effect at once and are kept)
\*   evs      what the execution did, in order (tool runs, updates, reviews)
\*   outcome  "ok", "suspend" (interrupt raised) or "fail" (exception)
\*   request  the Review Request of the raised interrupt
\*   resumes  the verdicts recorded for this node, in interrupt() call order
\*   nr       the verdict carried by the resume call, until an interrupt() takes it
\*   k        interrupt() calls made so far in this execution
Acc0(st, resumes, nr) ==
  [result |-> <<>>, goto |-> "llm_call", store |-> st, evs |-> <<>>, outcome |-> "ok",
   request |-> <<>>, resumes |-> resumes, nr |-> nr, k |-> 0]

HasAnswer(acc) == acc.k < Len(acc.resumes) \/ acc.nr # <<>>

Answer(acc) == IF acc.k < Len(acc.resumes) THEN acc.resumes[acc.k + 1] ELSE acc.nr[1]

\* the accumulator after interrupt() has returned a verdict
Answered(acc) ==
  IF acc.k < Len(acc.resumes)
  THEN [acc EXCEPT !.k = @ + 1]
  ELSE [acc EXCEPT !.k = @ + 1, !.resumes = Append(@, acc.nr[1]), !.nr = <<>>]

Suspended(acc, request, ev) ==
  [acc EXCEPT !.outcome = "suspend", !.request = <<request>>, !.evs = Append(@, ev)]

Failed(acc) == [acc EXCEPT !.outcome = "fail"]

\* faulty variant: the newest result is put in front of the earlier ones
AddResultPrepending(acc, m) ==
  [acc EXCEPT !.result = <<m>> \o @,
              !.evs = IF m.role = "tool" THEN Append(@, ResultEvent(m)) ELSE @]

\* result.append(m); a tool-result message is noted in the log
AddResult(acc, m) ==
  [acc EXCEPT !.result = Append(@, m),
              !.evs = IF m.role = "tool" THEN Append(@, ResultEvent(m)) ELSE @]

\* faulty variant: the tool result is filed under the id of another turn's call
ExecutedUncorrelated(acc, tc, args) ==
  AddResult([acc EXCEPT !.evs = Append(@, ExecEvent(tc, args))],
            ToolMsg(Invoke(tc.name, args), tc.id + MaxProposed + 1))

\* tool.invoke(args) followed by result.append of the observation
Executed(acc, tc, args) ==
  AddResult([acc EXCEPT !.evs = Append(@, ExecEvent(tc, args))],
            ToolMsg(Invoke(tc.name, args), tc.id))

Updated(acc, ns, id, text) ==
  [acc EXCEPT !.store = update_memory(acc.store, ns, text),
              !.evs = Append(@, UpdateEvent(acc.store, ns, id))]

\* ------------------------------------------- interrupt_handler, one verdict
\* faulty variant: the copy keeps the edited call alone
FilterOutAll(tcs, id) == <<>>

FilterOut(tcs, id) == SelectSeq(tcs, LAMBDA tc : tc.id # id)

\* faulty variant: accepting a proposal also rewrites the matching profile
OnAcceptUpdating(acc, tc) ==
  Updated(Executed(acc, tc, tc.args), IF tc.name = "schedule_meeting" THEN CAL_NS ELSE RESPONSE_NS,
          tc.id, "profile_a")

OnAccept(acc, tc) == Executed(acc, tc, tc.args)

OnEdit(acc, tc, v, ai_message, text) ==
  LET edited_args == v.args
      updated_tool_calls == FilterOut(ai_message.tool_calls, tc.id)
                              \o <<ToolCall(tc.name, edited_args, tc.id)>>
      copied == AddResult(acc, [ai_message EXCEPT !.tool_calls = updated_tool_calls])
  IN  IF tc.name = "write_email"
      THEN Updated(Executed(copied, tc, edited_args), RESPONSE_NS, tc.id, text)
      ELSE IF tc.name = "schedule_meeting"
      THEN Updated(Executed(copied, tc, edited_args), CAL_NS, tc.id, text)
      ELSE Failed(copied)

OnIgnore(acc, tc, text) ==
  IF tc.name \in {"write_email", "schedule_meeting", "Question"}
  THEN Updated([AddResult(acc, ToolMsg(<<"ignored", tc.name>>, tc.id)) EXCEPT !.goto = END],
               TRIAGE_NS, tc.id, text)
  ELSE Failed(acc)

\* faulty variant: feedback on a draft sends the draft all the same
OnResponseExecuting(acc, tc, v, text) ==
  IF tc.name = "write_email" THEN Updated(Executed(acc, tc, tc.args), RESPONSE_NS, tc.id, text)
  ELSE IF tc.name = "schedule_meeting" THEN Updated(Executed(acc, tc, tc.args), CAL_NS, tc.id, text)
  ELSE IF tc.name = "Question"
  THEN AddResult(acc, ToolMsg(<<"feedback", tc.name, v.args>>, tc.id))
  ELSE Failed(acc)

\* faulty variant: the answer to a Question is filed as a response preference
OnResponseLearning(acc, tc, v, text) ==
  LET noted == AddResult(acc, ToolMsg(<<"feedback", tc.name, v.args>>, tc.id))
  IN  IF tc.name \in {"write_email", "Question"} THEN Updated(noted, RESPONSE_NS, tc.id, text)
      ELSE IF tc.name = "schedule_meeting" THEN Updated(noted, CAL_NS, tc.id, text)
      ELSE Failed(acc)

OnResponse(acc, tc, v, text) ==
  LET noted == AddResult(acc, ToolMsg(<<"feedback", tc.name, v.args>>, tc.id))
  IN  IF tc.name = "write_email" THEN Updated(noted, RESPONSE_NS, tc.id, text)
      ELSE IF tc.name = "schedule_meeting" THEN Updated(noted, CAL_NS, tc.id, text)
      ELSE IF tc.name = "Question" THEN noted
      ELSE Failed(acc)

\* faulty variant: a verdict of an unknown type is taken for an accept
OnVerdictDefaulting(acc, tc, v, ai_message, text) ==
  LET a == [acc EXCEPT !.evs = Append(@, VerdictEvent(tc, v))]
  IN  IF v.type = "edit" THEN OnEdit(a, tc, v, ai_message, text)
      ELSE IF v.type = "ignore" THEN OnIgnore(a, tc, text)
      ELSE IF v.type = "response" THEN OnResponse(a, tc, v, text)
      ELSE OnAccept(a, tc)

OnVerdict(acc, tc, v, ai_message, text) ==
  LET a == [acc EXCEPT !.evs = Append(@, VerdictEvent(tc, v))]
  IN  IF v.type = "accept" THEN OnAccept(a, tc)
      ELSE IF v.type = "edit" THEN OnEdit(a, tc, v, ai_message, text)
      ELSE IF v.type = "ignore" THEN OnIgnore(a, tc, text)
      ELSE IF v.type = "response" THEN OnResponse(a, tc, v, text)
      ELSE Failed(a)

\* faulty variant: the requests of all unanswered reviewable calls are raised together
HandleToolCallBatched(acc, tc, ai_message, text) ==
  IF acc.outcome = "fail" THEN acc
  ELSE IF acc.outcome = "suspend"
  THEN IF tc.name \in hitl_tools THEN [acc EXCEPT !.request = Append(@, Request(tc))] ELSE acc
  ELSE IF tc.name \notin hitl_tools
  THEN IF tc.name \in tools_by_name THEN Executed(acc, tc, tc.args) ELSE Failed(acc)
  ELSE IF HasAnswer(acc)
  THEN OnVerdict(Answered(acc), tc, Answer(acc), ai_message, text)
  ELSE Suspended(acc, Request(tc), ReviewEvent(tc))

\* faulty variant: every tool call is sent for review, none is run at once
HandleToolCallReviewAll(acc, tc, ai_message, text) ==
  IF acc.outcome # "ok" THEN acc
  ELSE IF tc.name \notin tools_by_name THEN Failed(acc)
  ELSE IF HasAnswer(acc)
  THEN OnVerdict(Answered(acc), tc, Answer(acc), ai_message, text)
  ELSE Suspended(acc, Request(tc), ReviewEvent(tc))

\* one iteration of the loop over the tool calls of the last message
HandleToolCall(acc, tc, ai_message, text) ==
  IF acc.outcome # "ok" THEN acc
  ELSE IF tc.name \notin hitl_tools
  THEN IF tc.name \in tools_by_name THEN Executed(acc, tc, tc.args) ELSE Failed(acc)
  ELSE IF tc.name \notin {"write_email", "schedule_meeting", "Question"} THEN Failed(acc)
  ELSE IF HasAnswer(acc)
  THEN OnVerdict(Answered(acc), tc, Answer(acc), ai_message, text)
  ELSE Suspended(acc, Request(tc), ReviewEvent(tc))

RECURSIVE HandleAllReversed(_, _, _, _, _)
HandleAllReversed(acc, tcs, i, ai_message, text) ==
  IF i > Len(tcs) THEN acc
  ELSE HandleAllReversed(HandleToolCall(acc, tcs[Len(tcs) + 1 - i], ai_message, text),
                         tcs, i + 1, ai_message, text)

RECURSIVE HandleAll(_, _, _, _, _)
HandleAll(acc, tcs, i, ai_message, text) ==
  IF i > Len(tcs) THEN acc
  ELSE HandleAll(HandleToolCall(acc, tcs[i], ai_message, text), tcs, i + 1, ai_message, text)

\* interrupt_handler: one execution from its first line, on the stored state
interrupt_handler_run(msgs, st, resumes, nr, text) ==
  LET ai_message == msgs[Len(msgs)]
  IN  HandleAll(Acc0(st, resumes, nr), ai_message.tool_calls, 1, ai_message, text)

\* ------------------------------------------------- the messages reducer
\* a message whose id is already in the list replaces that message in
\* place, any other message is appended
HasId(msgs, id) == id # 0 /\ \E i \in 1..Len(msgs) : msgs[i].id = id

AddOne(msgs, m) ==
  IF HasId(msgs, m.id)
  THEN [i \in 1..Len(msgs) |-> IF msgs[i].id = m.id THEN m ELSE msgs[i]]
  ELSE Append(msgs, m)

RECURSIVE add_messages(_, _)
add_messages(msgs, new) ==
  IF new = <<>> THEN msgs ELSE add_messages(AddOne(msgs, Head(new)), Tail(new))

\* ------------------------------------------------------------------ state
VARIABLES
  variant,                  \* per thread: which graph runs it (HITL or PLAIN), None before it starts
  status,                   \* per thread: "none", "running", "interrupted", "failed", "completed"
  nxt,                      \* per thread: the node the checkpoint says runs next, END when finished
  classification_decision,  \* per thread: State.classification_decision, None until triage sets it
  messages,                 \* per thread: State.messages
  resumes,                  \* per thread: verdicts recorded for the pending node, in interrupt() order
  null_resume,              \* per thread: the verdict of the resume call under way, not yet taken
  pending,                  \* per thread: Review Requests awaiting a verdict
  inflight,                 \* per thread: the Review Request whose verdict is being applied
  reply,                    \* per thread: the last answer of the HTTP entry point
  log,                      \* per thread: what the run did so far, in order
  store,                    \* the Memory Store: namespace -> profile of key "user_preferences"
  last_request,             \* the last request body the HITL entry point received, and what it was taken for
  memory_call,              \* per caller: the get_memory / update_memory call it made last, and how far it got
  test_run                  \* test_email_dataset_tool_calls: the run's messages, the expected calls, what was extracted

vars == <<variant, status, nxt, classification_decision, messages, resumes, null_resume,
          pending, inflight, reply, log, store, last_request, memory_call, test_run>>

NoReply == [status |-> "none", code |-> 0, interrupt |-> <<>>]

ErrorReply(code) == [status |-> "error", code |-> code, interrupt |-> <<>>]

CompletedReply == [status |-> "completed", code |-> 200, interrupt |-> <<>>]

InterruptInfo(request) ==
  [action |-> request.action, args |-> request.args, id |-> request.id,
   allowed_actions |-> _get_allowed_actions(request.config)]

InterruptedReply(request) ==
  [status |-> "interrupted", code |-> 200, interrupt |-> <<InterruptInfo(request)>>]

\* a call of an entry point that reaches the graph, with the thread's status when it came
CallEvent(kind, before) == [ev |-> "call", ns |-> None, id |-> 0, name |-> kind, args |-> before]

\* a call of get_memory or update_memory by one caller:
\*   arg    the default_content of get_memory, the summarizer's text of update_memory
\*   value  what store.get gave: the profile found, None, or what the caller made of it
\*   pc     "absent" (get_memory found nothing, its put is to come), "summarizing"
\*          (update_memory has read, the summarizer is running) or "returned"
MemoryCall(op, ns, arg, value, pc) == [op |-> op, ns |-> ns, arg |-> arg, value |-> value, pc |-> pc]

NoCall == MemoryCall(None, None, None, None, "returned")

\* a request body as the entry point sees it: which of the three optional
\* fields are there, and what the entry point took the request for
Received(email, thread_id, human_response, taken_as) ==
  [email |-> email, thread_id |-> thread_id, human_response |-> human_response,
   taken_as |-> taken_as]

\* thread_id of a request that has none
NoThread == 0

NoRequest == Received(FALSE, NoThread, FALSE, None)

\* one parametrized case of the test: result['messages'] of the run so far, the
\* expected_calls of the case, the two lists the test computes, and how far it got
TestRun(msgs, expected_calls, extracted_tool_calls, missing_calls, pc) ==
  [messages |-> msgs, expected_calls |-> expected_calls,
   extracted_tool_calls |-> extracted_tool_calls, missing_calls |-> missing_calls, pc |-> pc]

NoTestRun == TestRun(<<>>, <<>>, <<>>, <<>>, "running")

Init ==
  /\ variant = [t \in Threads |-> None]
  /\ status = [t \in Threads |-> "none"]
  /\ nxt = [t \in Threads |-> None]
  /\ classification_decision = [t \in Threads |-> None]
  /\ messages = [t \in Threads |-> <<>>]
  /\ resumes = [t \in Threads |-> <<>>]
  /\ null_resume = [t \in Threads |-> <<>>]
  /\ pending = [t \in Threads |-> <<>>]
  /\ inflight = [t \in Threads |-> <<>>]
  /\ reply = [t \in Threads |-> NoReply]
  /\ log = [t \in Threads |-> <<>>]
  /\ store = [ns \in Namespaces |-> None]
  /\ last_request = NoRequest
  /\ memory_call = [t \in Threads |-> NoCall]
  /\ test_run = NoTestRun

\* ---------------------------------------------------------------- counting
CountSeq(s, P(_)) == Cardinality({i \in 1..Len(s) : P(s[i])})

AITurns(t) == CountSeq(messages[t], LAMBDA m : m.role = "ai")

RECURSIVE SumCalls(_)
SumCalls(msgs) ==
  IF msgs = <<>> THEN 0 ELSE Len(Head(msgs).tool_calls) + SumCalls(Tail(msgs))

RECURSIVE SumProposed(_)
SumProposed(S) ==
  IF S = {} THEN 0
  ELSE LET t == CHOOSE x \in S : TRUE IN SumCalls(messages[t]) + SumProposed(S \ {t})

\* tool calls the LLM may still propose within the bound
Room == MaxProposed - SumProposed(Threads)

ResumeCalls(t) == CountSeq(log[t], LAMBDA e : e.ev = "call" /\ e.name = "resume")

RECURSIVE SumResumes(_)
SumResumes(S) ==
  IF S = {} THEN 0 ELSE LET t == CHOOSE x \in S : TRUE IN ResumeCalls(t) + SumResumes(S \ {t})

RequestsUsed == SumResumes(Threads)

LLMFailures(t) == CountSeq(log[t], LAMBDA e : e.ev = "node" /\ e.name = "raise")

RECURSIVE SumFailures(_)
SumFailures(S) ==
  IF S = {} THEN 0 ELSE LET t == CHOOSE x \in S : TRUE IN LLMFailures(t) + SumFailures(S \ {t})

FailuresUsed == SumFailures(Threads)

\* the HTTP call a thread is serving: "new" or "resume"
RECURSIVE LastCall(_)
LastCall(l) ==
  IF l = <<>> THEN None
  ELSE IF l[Len(l)].ev = "call" THEN l[Len(l)].name
  ELSE LastCall(SubSeq(l, 1, Len(l) - 1))

\* status code of an exception that escapes the graph run (main.py)
FailureCode(t) == IF variant[t] = HITL /\ LastCall(log[t]) = "resume" THEN 400 ELSE 500

\* a verdict no interrupt() has taken when a node finishes may or may not be
\* seen by a later interrupt() of the same resume call
Carry(nr) == {nr, <<>>}

\* tool-call lists the tool-selection LLM may propose in turn number n
RECURSIVE NameSeqs(_, _)
NameSeqs(names, n) ==
  IF n = 0 THEN {<<>>}
  ELSE LET shorter == NameSeqs(names, n - 1)
       IN  shorter \cup {Append(s, x) : s \in {q \in shorter : Len(q) = n - 1}, x \in names}

Proposals(names, turn, room) ==
  {[i \in 1..Len(s) |-> ToolCall(s[i], ORIG, turn * (MaxProposed + 1) + i)] :
     s \in NameSeqs(names, room) \ {<<>>}}

\* the server process serves one call of the entry points at a time
Idle == \A t \in Threads : status[t] # "running"

\* thread ids are fresh: a new run takes the first id not yet used
Fresh(t) == status[t] = "none" /\ \A u \in Threads : u < t => status[u] # "none"

\* ------------------------------------------------------------ graph edges
\* edges added with add_edge; they are followed whatever the node returns
StaticEdges(g, node) ==
  IF g = HITL /\ node = "interrupt_handler" THEN {"llm_call"}
  ELSE IF g = PLAIN /\ node = "tool_handler" THEN {"llm_call"}
  ELSE {}

\* the node that runs after `node` returned Command(goto): a goto adds to the
\* static edges of the node, it does not replace them, and a goto of END adds nothing
NextNode(g, node, goto) ==
  LET targets == (StaticEdges(g, node) \cup {goto}) \ {END, None}
  IN  IF targets = {} THEN END ELSE CHOOSE n \in targets : TRUE

\* faulty variant: every turn with tool calls is sent to the handler, Done or not
should_continue_dispatching(last_message) ==
  IF last_message.tool_calls # <<>> THEN "interrupt_handler" ELSE END

\* should_continue of the HITL agent: decided by the first tool call alone
should_continue(last_message) ==
  IF last_message.tool_calls # <<>>
  THEN IF last_message.tool_calls[1].name = "Done" THEN END ELSE "interrupt_handler"
  ELSE END

\* should_continue of the plain agent: END if any tool call is Done
agent_should_continue(last_message) ==
  IF last_message.tool_calls # <<>>
  THEN IF \E i \in 1..Len(last_message.tool_calls) : last_message.tool_calls[i].name = "Done"
       THEN END ELSE "tool_handler"
  ELSE END

\* --------------------------------------------------- triage_interrupt_handler
\* faulty variant: an ignored notification is handed to the response agent all the same
triage_interrupt_handler_continues(classification, st, rs, nr, text) ==
  LET acc == [Acc0(st, rs, nr) EXCEPT !.result = <<UserMsg(<<"notify_email">>)>>]
      tc == ToolCall("triage", "no_args", 0)
  IN  IF ~HasAnswer(acc)
      THEN Suspended(acc, TriageRequest(classification), ReviewEvent(tc))
      ELSE LET v == Answer(acc)
               a == [Answered(acc) EXCEPT !.evs = Append(@, VerdictEvent(tc, v))]
           IN  IF v.type \in {"response", "ignore"}
               THEN [Updated(AddResult(a, UserMsg(<<"reply_feedback", v.args>>)),
                             TRIAGE_NS, 0, text) EXCEPT !.goto = "llm_call"]
               ELSE Failed(a)

\* faulty variant: an accept of the notification is taken for a wish to respond
triage_interrupt_handler_accepting(classification, st, rs, nr, text) ==
  LET acc == [Acc0(st, rs, nr) EXCEPT !.result = <<UserMsg(<<"notify_email">>)>>]
      tc == ToolCall("triage", "no_args", 0)
  IN  IF ~HasAnswer(acc)
      THEN Suspended(acc, TriageRequest(classification), ReviewEvent(tc))
      ELSE LET v == Answer(acc)
               a == [Answered(acc) EXCEPT !.evs = Append(@, VerdictEvent(tc, v))]
           IN  IF v.type \in {"response", "accept"}
               THEN [Updated(AddResult(a, UserMsg(<<"reply_feedback", v.args>>)),
                             TRIAGE_NS, 0, text) EXCEPT !.goto = "llm_call"]
               ELSE IF v.type = "ignore"
               THEN [Updated(AddResult(a, UserMsg(<<"ignored_notify">>)),
                             TRIAGE_NS, 0, text) EXCEPT !.goto = END]
               ELSE Failed(a)

triage_interrupt_handler_run(classification, st, rs, nr, text) ==
  LET acc == [Acc0(st, rs, nr) EXCEPT !.result = <<UserMsg(<<"notify_email">>)>>]
      tc == ToolCall("triage", "no_args", 0)
  IN  IF ~HasAnswer(acc)
      THEN Suspended(acc, TriageRequest(classification), ReviewEvent(tc))
      ELSE LET v == Answer(acc)
               a == [Answered(acc) EXCEPT !.evs = Append(@, VerdictEvent(tc, v))]
           IN  IF v.type = "response"
               THEN [Updated(AddResult(a, UserMsg(<<"reply_feedback", v.args>>)),
                             TRIAGE_NS, 0, text) EXCEPT !.goto = "llm_call"]
               ELSE IF v.type = "ignore"
               THEN [Updated(AddResult(a, UserMsg(<<"ignored_notify">>)),
                             TRIAGE_NS, 0, text) EXCEPT !.goto = END]
               ELSE Failed(a)

\* ------------------------------------------------------ what a node leaves
\* faulty variant: the checkpointer keeps one state for all threads
UpdShared(f, t, v) == [u \in DOMAIN f |-> v]

Upd(f, t, v) == [f EXCEPT ![t] = v]

\* an exception escapes the node: the checkpoint is not advanced, writes to
\* the store stay, an interrupt raised earlier by the node is still pending.
\* Whether the verdicts taken by the failed execution are recorded depends on
\* the runtime: both outcomes are possible.
Raised(t, st, evs, taken) ==
  /\ status' = Upd(status, t, IF inflight[t] # <<>> THEN "interrupted" ELSE "failed")
  /\ pending' = Upd(pending, t, inflight[t])
  /\ inflight' = Upd(inflight, t, <<>>)
  /\ null_resume' = Upd(null_resume, t, <<>>)
  /\ resumes' \in {resumes, Upd(resumes, t, taken)}
  /\ reply' = Upd(reply, t, ErrorReply(FailureCode(t)))
  /\ store' = st
  /\ log' = Upd(log, t, log[t] \o evs)
  /\ UNCHANGED <<variant, nxt, classification_decision, messages, last_request, memory_call, test_run>>

\* interrupt() raised: the run is suspended and the request is returned
Interrupted(t, acc, evs) ==
  /\ status' = Upd(status, t, "interrupted")
  /\ pending' = Upd(pending, t, acc.request)
  /\ inflight' = Upd(inflight, t, <<>>)
  /\ null_resume' = Upd(null_resume, t, <<>>)
  /\ resumes' = Upd(resumes, t, acc.resumes)
  /\ reply' = Upd(reply, t, InterruptedReply(acc.request[1]))
  /\ store' = acc.store
  /\ log' = Upd(log, t, log[t] \o evs)
  /\ UNCHANGED <<variant, nxt, classification_decision, messages, last_request, memory_call, test_run>>

\* the node returned: its update is applied and the next node is scheduled
Returned(t, node, goto, msgs, classification, st, evs, nr) ==
  LET n == NextNode(variant[t], node, goto)
  IN  /\ nxt' = Upd(nxt, t, n)
      /\ status' = Upd(status, t, IF n = END THEN "completed" ELSE "running")
      /\ reply' = Upd(reply, t, IF n = END THEN CompletedReply ELSE reply[t])
      /\ messages' = Upd(messages, t, msgs)
      /\ classification_decision' = Upd(classification_decision, t, classification)
      /\ pending' = Upd(pending, t, <<>>)
      /\ inflight' = Upd(inflight, t, <<>>)
      /\ resumes' = Upd(resumes, t, <<>>)
      /\ null_resume' \in {Upd(null_resume, t, x) : x \in (IF n = END THEN {<<>>} ELSE Carry(nr))}
      /\ store' = st
      /\ log' = Upd(log, t, log[t] \o evs)
      /\ UNCHANGED <<variant, last_request, memory_call, test_run>>

Running(t, g, node) == status[t] = "running" /\ variant[t] = g /\ nxt[t] = node

\* ---------------------------------------------------------- entry points
\* the is_new branch of the HITL entry point: a new thread is created and run
new_workflow(t) ==
  /\ Fresh(t) /\ Idle
  /\ variant' = Upd(variant, t, HITL)
  /\ status' = Upd(status, t, "running")
  /\ nxt' = Upd(nxt, t, "triage_router")
  /\ log' = Upd(log, t, <<CallEvent("new", status[t])>>)
  /\ reply' = Upd(reply, t, NoReply)
  /\ UNCHANGED <<classification_decision, messages, resumes, null_resume, pending, inflight,
                 store, memory_call, test_run>>

\* POST /process-email-hitl with an email and nothing else
NewWorkflow(t) == new_workflow(t) /\ UNCHANGED last_request

\* POST /process-email: one synchronous run of the plain agent
ProcessEmail(t) ==
  /\ Fresh(t) /\ Idle
  /\ variant' = Upd(variant, t, PLAIN)
  /\ status' = Upd(status, t, "running")
  /\ nxt' = Upd(nxt, t, "triage_router")
  /\ log' = Upd(log, t, <<CallEvent("new", status[t])>>)
  /\ reply' = Upd(reply, t, NoReply)
  /\ UNCHANGED <<classification_decision, messages, resumes, null_resume, pending, inflight,
                 store, last_request, memory_call, test_run>>

\* the is_resume branch of the HITL entry point when the thread is unknown to
\* the checkpointer or finished: a client error, nothing else happens
resume_refused(t, v) ==
  /\ variant[t] # PLAIN
  /\ status[t] = "none" \/ nxt[t] = END
  /\ Idle
  /\ reply' = Upd(reply, t, ErrorReply(400))
  /\ UNCHANGED <<variant, status, nxt, classification_decision, messages, resumes, null_resume,
                 pending, inflight, log, store, memory_call, test_run>>

\* POST /process-email-hitl with thread_id and human_response and nothing else,
\* thread unknown or finished
ResumeRejected(t, v) == resume_refused(t, v) /\ UNCHANGED last_request

\* the is_resume branch on a thread whose checkpoint has values and a next
\* node: the graph is streamed again with Command(resume = [verdict])
resume_streamed(t, v) ==
  /\ variant[t] = HITL
  /\ status[t] \in {"interrupted", "failed"}
  /\ nxt[t] # END
  /\ Idle
  /\ RequestsUsed < MaxRequests
  /\ status' = Upd(status, t, "running")
  /\ null_resume' = Upd(null_resume, t, <<v>>)
  /\ inflight' = Upd(inflight, t, pending[t])
  /\ pending' = Upd(pending, t, <<>>)
  /\ log' = Upd(log, t, Append(log[t], CallEvent("resume", status[t])))
  /\ reply' = Upd(reply, t, NoReply)
  /\ UNCHANGED <<variant, nxt, classification_decision, messages, resumes, store, memory_call, test_run>>

\* the same call on a suspended thread
ResumeAccepted(t, v) == resume_streamed(t, v) /\ UNCHANGED last_request

process_email_hitl_endpoint(t, v) == ResumeRejected(t, v) \/ ResumeAccepted(t, v)

\* ------------------------------------------------------------- HITL nodes
\* faulty variant: an email classified ignore is sent to human review like a notify one
triage_router_reviews_ignored(t) ==
  /\ Running(t, HITL, "triage_router")
  /\ \E classification \in Classifications :
       LET st == get_memory_store(store, TRIAGE_NS, DEFAULT_TRIAGE_INSTRUCTIONS)
           goto == IF classification = "respond" THEN "llm_call" ELSE "triage_interrupt_handler"
           msgs == IF classification = "respond"
                   THEN add_messages(messages[t], <<UserMsg(<<"respond_to_email">>)>>)
                   ELSE messages[t]
       IN  Returned(t, "triage_router", goto, msgs, classification, st,
                    <<NodeEvent("triage_router")>>, null_resume[t])

triage_router(t) ==
  /\ Running(t, HITL, "triage_router")
  /\ \E classification \in Classifications :
       LET st == get_memory_store(store, TRIAGE_NS, DEFAULT_TRIAGE_INSTRUCTIONS)
           goto == IF classification = "respond" THEN "llm_call"
                   ELSE IF classification = "ignore" THEN END
                   ELSE "triage_interrupt_handler"
           msgs == IF classification = "respond"
                   THEN add_messages(messages[t], <<UserMsg(<<"respond_to_email">>)>>)
                   ELSE messages[t]
       IN  Returned(t, "triage_router", goto, msgs, classification, st,
                    <<NodeEvent("triage_router")>>, null_resume[t])

\* faulty variant: a response verdict on a notify email rewrites the classification
triage_interrupt_handler_reclassifies(t) ==
  /\ Running(t, HITL, "triage_interrupt_handler")
  /\ \E text \in LLMTexts :
       LET acc == triage_interrupt_handler_run(classification_decision[t], store, resumes[t],
                                               null_resume[t], text)
           evs == <<NodeEvent("triage_interrupt_handler")>> \o acc.evs
       IN  IF acc.outcome = "suspend" THEN Interrupted(t, acc, evs)
           ELSE IF acc.outcome = "fail" THEN Raised(t, acc.store, evs, acc.resumes)
           ELSE Returned(t, "triage_interrupt_handler", acc.goto,
                         add_messages(messages[t], acc.result),
                         IF acc.goto = "llm_call" THEN "respond" ELSE classification_decision[t],
                         acc.store, evs, acc.nr)

triage_interrupt_handler(t) ==
  /\ Running(t, HITL, "triage_interrupt_handler")
  /\ \E text \in LLMTexts :
       LET acc == triage_interrupt_handler_run(classification_decision[t], store, resumes[t],
                                               null_resume[t], text)
           evs == <<NodeEvent("triage_interrupt_handler")>> \o acc.evs
       IN  IF acc.outcome = "suspend" THEN Interrupted(t, acc, evs)
           ELSE IF acc.outcome = "fail" THEN Raised(t, acc.store, evs, acc.resumes)
           ELSE Returned(t, "triage_interrupt_handler", acc.goto,
                         add_messages(messages[t], acc.result), classification_decision[t],
                         acc.store, evs, acc.nr)

llm_call(t) ==
  /\ Running(t, HITL, "llm_call")
  /\ Room > 0
  /\ \E tcs \in Proposals(tools_by_name, AITurns(t) + 1, Room) :
       LET st == get_memory_store(
                   get_memory_store(store, CAL_NS, DEFAULT_CAL_PREFERENCES),
                   RESPONSE_NS, DEFAULT_RESPONSE_PREFERENCES)
           ai_message == AIMsg(AITurns(t) + 1, tcs)
       IN  Returned(t, "llm_call", should_continue(ai_message),
                    add_messages(messages[t], <<ai_message>>), classification_decision[t],
                    st, <<NodeEvent("llm_call")>>, null_resume[t])

interrupt_handler(t) ==
  /\ Running(t, HITL, "interrupt_handler")
  /\ \E text \in LLMTexts :
       LET acc == interrupt_handler_run(messages[t], store, resumes[t], null_resume[t], text)
           evs == <<NodeEvent("interrupt_handler")>> \o acc.evs
       IN  IF acc.outcome = "suspend" THEN Interrupted(t, acc, evs)
           ELSE IF acc.outcome = "fail" THEN Raised(t, acc.store, evs, acc.resumes)
           ELSE Returned(t, "interrupt_handler", acc.goto,
                         add_messages(messages[t], acc.result), classification_decision[t],
                         acc.store, evs, acc.nr)

\* an LLM invocation of triage_router or llm_call fails: the node raises after
\* its get_memory calls
LLMFails(t) ==
  /\ status[t] = "running" /\ variant[t] = HITL
  /\ nxt[t] \in {"triage_router", "llm_call"}
  /\ FailuresUsed < MaxFailures
  /\ LET st == IF nxt[t] = "triage_router"
               THEN get_memory_store(store, TRIAGE_NS, DEFAULT_TRIAGE_INSTRUCTIONS)
               ELSE get_memory_store(
                      get_memory_store(store, CAL_NS, DEFAULT_CAL_PREFERENCES),
                      RESPONSE_NS, DEFAULT_RESPONSE_PREFERENCES)
     IN  Raised(t, st, <<NodeEvent(nxt[t]), NodeEvent("raise")>>, resumes[t])

\* ------------------------------------------------------------ plain nodes
agent_triage_router(t) ==
  /\ Running(t, PLAIN, "triage_router")
  /\ \E classification \in Classifications :
       LET goto == IF classification = "respond" THEN "llm_call" ELSE END
           msgs == IF classification = "respond"
                   THEN add_messages(messages[t], <<UserMsg(<<"respond_to_email">>)>>)
                   ELSE messages[t]
       IN  Returned(t, "triage_router", goto, msgs, classification, store,
                    <<NodeEvent("triage_router")>>, <<>>)

agent_llm_call(t) ==
  /\ Running(t, PLAIN, "llm_call")
  /\ Room > 0
  /\ \E tcs \in Proposals(TOOLS, AITurns(t) + 1, Room) :
       LET ai_message == AIMsg(AITurns(t) + 1, tcs)
       IN  Returned(t, "llm_call", agent_should_continue(ai_message),
                    add_messages(messages[t], <<ai_message>>), classification_decision[t],
                    store, <<NodeEvent("llm_call")>>, <<>>)

RECURSIVE ToolHandlerAll(_, _, _)
ToolHandlerAll(acc, tcs, i) ==
  IF i > Len(tcs) \/ acc.outcome # "ok" THEN acc
  ELSE ToolHandlerAll(IF tcs[i].name \in TOOLS THEN Executed(acc, tcs[i], tcs[i].args)
                      ELSE Failed(acc), tcs, i + 1)

tool_handler_run(msgs, st) ==
  ToolHandlerAll([Acc0(st, <<>>, <<>>) EXCEPT !.goto = None], msgs[Len(msgs)].tool_calls, 1)

tool_handler(t) ==
  /\ Running(t, PLAIN, "tool_handler")
  /\ LET acc == tool_handler_run(messages[t], store)
         evs == <<NodeEvent("tool_handler")>> \o acc.evs
     IN  IF acc.outcome = "fail" THEN Raised(t, acc.store, evs, <<>>)
         ELSE Returned(t, "tool_handler", acc.goto, add_messages(messages[t], acc.result),
                       classification_decision[t], acc.store, evs, <<>>)

\* ------------------------------------- inputs outside the enumerations
\* faulty variant: a classifier output that is none of the three is taken for respond
triage_goto_guessing(g, classification) ==
  IF classification = "ignore" THEN END
  ELSE IF classification = "notify" THEN (IF g = HITL THEN "triage_interrupt_handler" ELSE END)
  ELSE "llm_call"

\* the routing decision of triage_router for a classifier output; "raise" when
\* the value is none of the three
triage_goto(g, classification) ==
  IF classification = "respond" THEN "llm_call"
  ELSE IF classification = "ignore" THEN END
  ELSE IF classification = "notify" THEN (IF g = HITL THEN "triage_interrupt_handler" ELSE END)
  ELSE "raise"

\* triage_router (either variant) when the classifier output is not one of
\* respond, ignore, notify
triage_router_invalid(t) ==
  /\ status[t] = "running" /\ nxt[t] = "triage_router"
  /\ LET classification == INVALID_CLASSIFICATION
         goto == triage_goto(variant[t], classification)
         st == IF variant[t] = HITL
               THEN get_memory_store(store, TRIAGE_NS, DEFAULT_TRIAGE_INSTRUCTIONS)
               ELSE store
         evs == <<NodeEvent("triage_router"), NodeEvent(classification)>>
     IN  IF goto = "raise"
         THEN Raised(t, st, evs, resumes[t])
         ELSE Returned(t, "triage_router", goto, messages[t], classification, st, evs,
                       null_resume[t])

\* tool-call lists that name a tool the agent has not registered
Unregistered(names, turn, room) ==
  {tcs \in Proposals(names \cup {UNREGISTERED_TOOL}, turn, room) :
     \E i \in 1..Len(tcs) : tcs[i].name = UNREGISTERED_TOOL}

\* llm_call when the LLM names a tool that is not registered
llm_call_unregistered(t) ==
  /\ Running(t, HITL, "llm_call")
  /\ Room > 0
  /\ \E tcs \in Unregistered(tools_by_name, AITurns(t) + 1, Room) :
       LET st == get_memory_store(
                   get_memory_store(store, CAL_NS, DEFAULT_CAL_PREFERENCES),
                   RESPONSE_NS, DEFAULT_RESPONSE_PREFERENCES)
           ai_message == AIMsg(AITurns(t) + 1, tcs)
       IN  Returned(t, "llm_call", should_continue(ai_message),
                    add_messages(messages[t], <<ai_message>>), classification_decision[t],
                    st, <<NodeEvent("llm_call")>>, null_resume[t])

agent_llm_call_unregistered(t) ==
  /\ Running(t, PLAIN, "llm_call")
  /\ Room > 0
  /\ \E tcs \in Unregistered(TOOLS, AITurns(t) + 1, Room) :
       LET ai_message == AIMsg(AITurns(t) + 1, tcs)
       IN  Returned(t, "llm_call", agent_should_continue(ai_message),
                    add_messages(messages[t], <<ai_message>>), classification_decision[t],
                    store, <<NodeEvent("llm_call")>>, <<>>)

\* the compiled graph resumed with Command(resume = [verdict]) where the verdict
\* type is none of the four: the request schema of main.py lets no such value
\* through, a direct caller of compiled_email_assistant_hitl can pass one
ResumeUnchecked(t) ==
  /\ variant[t] = HITL
  /\ status[t] \in {"interrupted", "failed"}
  /\ nxt[t] # END
  /\ Idle
  /\ RequestsUsed < MaxRequests
  /\ status' = Upd(status, t, "running")
  /\ null_resume' = Upd(null_resume, t, <<Verdict(UNKNOWN_TYPE)>>)
  /\ inflight' = Upd(inflight, t, pending[t])
  /\ pending' = Upd(pending, t, <<>>)
  /\ log' = Upd(log, t, Append(log[t], CallEvent("resume", status[t])))
  /\ reply' = Upd(reply, t, NoReply)
  /\ UNCHANGED <<variant, nxt, classification_decision, messages, resumes, store, last_request,
                 memory_call, test_run>>

\* ------------------------------------------------------------------- spec
Step(t) ==
  \/ NewWorkflow(t)
  \/ ProcessEmail(t)
  \/ \E v \in Verdicts : process_email_hitl_endpoint(t, v)
  \/ triage_router(t)
  \/ triage_interrupt_handler(t)
  \/ llm_call(t)
  \/ interrupt_handler(t)
  \/ agent_triage_router(t)
  \/ agent_llm_call(t)
  \/ tool_handler(t)

\* one run at a time, every LLM invocation answers
Next == \E t \in MainThreads : Step(t)

Spec == Init /\ [][Next]_vars

\* the same, where an LLM invocation may also fail
NextFaults == \E t \in MainThreads : Step(t) \/ LLMFails(t)

SpecFaults == Init /\ [][NextFaults]_vars

\* one run at a time, where the LLMs and the caller may also produce values
\* outside the declared enumerations
NextOpen ==
  \E t \in MainThreads :
    \/ Step(t)
    \/ triage_router_invalid(t)
    \/ llm_call_unregistered(t)
    \/ agent_llm_call_unregistered(t)
    \/ ResumeUnchecked(t)

SpecOpen == Init /\ [][NextOpen]_vars

\* one run at a time, where the classifier may return a value outside its enumeration
NextClassifier == \E t \in MainThreads : Step(t) \/ triage_router_invalid(t)

SpecClassifier == Init /\ [][NextClassifier]_vars

\* one run at a time, where the graph may be resumed with a verdict of unknown type
NextVerdicts == \E t \in MainThreads : Step(t) \/ ResumeUnchecked(t)

SpecVerdicts == Init /\ [][NextVerdicts]_vars

\* ----------------------------------------------------- a tighter budget
\* the specifications below multiply every state of a run by the request
\* bodies, or by the states of a second run: they stop one proposal and one
\* resume short of the budgets above
WithinTightBudget == SumProposed(Threads) < MaxProposed /\ RequestsUsed < MaxRequests

\* ------------------------------------------- any request body (HITL)
\* ProcessEmailHITLRequest: email, thread_id and human_response are all optional
RequestBodies ==
  [email : BOOLEAN, thread_id : Threads \cup {NoThread},
   human_response : {<<>>} \cup {<<v>> : v \in Verdicts}]

is_resume(body) == body.thread_id # NoThread /\ body.human_response # <<>>

\* faulty variant: an email makes a request a new workflow, thread_id or not
is_new_lenient(body) == body.email

is_new(body) == body.email /\ body.thread_id = NoThread

\* POST /process-email-hitl with any body the request schema lets through
process_email_hitl(body) ==
  LET seen(taken_as) ==
        Received(body.email, body.thread_id, body.human_response # <<>>, taken_as)
  IN  /\ Idle
      /\ IF ~is_resume(body) /\ ~is_new(body)
         THEN /\ last_request' = seen("rejected")
              /\ UNCHANGED <<variant, status, nxt, classification_decision, messages, resumes,
                             null_resume, pending, inflight, reply, log, store, memory_call, test_run>>
         ELSE IF is_new(body)
         THEN /\ \E t \in MainThreads : new_workflow(t)
              /\ last_request' = seen("new")
         ELSE /\ \/ resume_refused(body.thread_id, body.human_response[1])
                 \/ resume_streamed(body.thread_id, body.human_response[1])
              /\ last_request' = seen("resume")

NextRequests ==
  \/ \E body \in RequestBodies : process_email_hitl(body) /\ WithinTightBudget'
  \/ \E t \in MainThreads :
       \/ triage_router(t)
       \/ triage_interrupt_handler(t)
       \/ llm_call(t) /\ WithinTightBudget'
       \/ interrupt_handler(t)

SpecRequests == Init /\ [][NextRequests]_vars

\* ------------------------------------------------- two threads in flight
\* HITL runs on both thread ids: a second email arrives, and verdicts are
\* given, while the first run is suspended or finished
NextThreads ==
  \E t \in Threads :
    \/ NewWorkflow(t)
    \/ \E v \in Verdicts : ResumeRejected(t, v)
    \/ \E v \in Verdicts : ResumeAccepted(t, v) /\ WithinTightBudget'
    \/ triage_router(t)
    \/ triage_interrupt_handler(t)
    \/ llm_call(t) /\ WithinTightBudget'
    \/ interrupt_handler(t)

SpecThreads == Init /\ [][NextThreads]_vars

\* ------------------------------------------- the memory functions alone
\* get_memory and update_memory as their callers run them: each is a store.get
\* followed, after the caller's own work, by a store.put. The store is a Redis
\* server shared by every server process, so the calls of two callers interleave
\* between the get and the put.
graph_vars == <<variant, status, nxt, classification_decision, messages, resumes, null_resume,
                pending, inflight, reply, log>>

Defaults == {DEFAULT_TRIAGE_INSTRUCTIONS, DEFAULT_RESPONSE_PREFERENCES, DEFAULT_CAL_PREFERENCES}

\* the default_content every caller of get_memory passes for a namespace
DefaultOf(ns) ==
  IF ns = TRIAGE_NS THEN DEFAULT_TRIAGE_INSTRUCTIONS
  ELSE IF ns = RESPONSE_NS THEN DEFAULT_RESPONSE_PREFERENCES
  ELSE DEFAULT_CAL_PREFERENCES

\* texts the preference summarizer may return to concurrent callers
SummarizerTexts == {"profile_a", "profile_b"}

CallReturned(t) == memory_call[t].pc = "returned"

\* faulty variant: the default is returned and not stored
seed_memory_skipped(st, ns, default_content) == st

\* store.put(namespace, "user_preferences", default_content) of get_memory
seed_memory(st, ns, default_content) == StorePut(st, ns, default_content)

\* faulty variant: the default is stored whatever store.get found
get_memory_reads_overwriting(t, ns, default_content) ==
  /\ CallReturned(t)
  /\ memory_call' = Upd(memory_call, t, MemoryCall("get_memory", ns, default_content, None, "absent"))
  /\ UNCHANGED <<store, graph_vars, last_request, test_run>>

\* get_memory up to its return or, when nothing is stored, up to its store.put
get_memory_reads(t, ns, default_content) ==
  /\ CallReturned(t)
  /\ memory_call' = Upd(memory_call, t,
        IF StoreGet(store, ns) # None
        THEN MemoryCall("get_memory", ns, default_content,
                        get_memory_value(store, ns, default_content), "returned")
        ELSE MemoryCall("get_memory", ns, default_content, None, "absent"))
  /\ UNCHANGED <<store, graph_vars, last_request, test_run>>

\* the store.put of the default and the return of get_memory
get_memory_puts(t) ==
  /\ memory_call[t].op = "get_memory" /\ memory_call[t].pc = "absent"
  /\ store' = seed_memory(store, memory_call[t].ns, memory_call[t].arg)
  /\ memory_call' = Upd(memory_call, t,
        [memory_call[t] EXCEPT !.value = memory_call[t].arg, !.pc = "returned"])
  /\ UNCHANGED <<graph_vars, last_request, test_run>>

\* faulty variant: a namespace is read for an update only while no other update of it is under way
update_memory_reads_locked(t, ns) ==
  /\ CallReturned(t)
  /\ \A u \in Threads : ~(memory_call[u].pc = "summarizing" /\ memory_call[u].ns = ns)
  /\ memory_call' = Upd(memory_call, t,
        MemoryCall("update_memory", ns, None, update_memory_base(store, ns), "summarizing"))
  /\ UNCHANGED <<store, graph_vars, last_request, test_run>>

\* update_memory up to the invocation of the summarizer
update_memory_reads(t, ns) ==
  /\ CallReturned(t)
  /\ memory_call' = Upd(memory_call, t,
        MemoryCall("update_memory", ns, None, update_memory_base(store, ns), "summarizing"))
  /\ UNCHANGED <<store, graph_vars, last_request, test_run>>

\* the summarizer has answered: the store.put of its text
update_memory_puts(t, text) ==
  /\ memory_call[t].op = "update_memory" /\ memory_call[t].pc = "summarizing"
  /\ store' = update_memory(store, memory_call[t].ns, text)
  /\ memory_call' = Upd(memory_call, t, [memory_call[t] EXCEPT !.arg = text, !.pc = "returned"])
  /\ UNCHANGED <<graph_vars, last_request, test_run>>

NextMemory ==
  \E t \in Threads :
    \/ \E ns \in Namespaces : get_memory_reads(t, ns, DefaultOf(ns))
    \/ get_memory_puts(t)
    \/ \E ns \in Namespaces : update_memory_reads(t, ns)
    \/ \E text \in SummarizerTexts : update_memory_puts(t, text)

SpecMemory == Init /\ [][NextMemory]_vars

\* ------------------------------------------ the tool-call test (src/tests)
\* Tool names are sequences of characters here, so that upper and lower case
\* differ: the Done tool is named with a capital, a dataset may spell it any way.
MaxMessages == 2     \* messages in the result of the run under test
MaxExpected == 1     \* names in expected_calls of one test case

TestNames ==
  {<<"D", "o", "n", "e">>, <<"d", "o", "n", "e">>, <<"D", "O", "N", "E">>,
   <<"w", "r", "i", "t", "e", "_", "e", "m", "a", "i", "l">>}

\* str.lower on one character of the names above
lower_char(c) ==
  IF c = "D" THEN "d" ELSE IF c = "O" THEN "o" ELSE IF c = "N" THEN "n" ELSE IF c = "E" THEN "e" ELSE c

\* faulty variant: the name is taken as it is spelled
lower_keeping(name) == name

\* str.lower: every character replaced by its lower-case form
lower(name) == [i \in 1..Len(name) |-> lower_char(name[i])]

\* hasattr(message, 'tool_calls'): assistant messages have the attribute
hasattr_tool_calls(message) == message.role = "ai"

RECURSIVE AppendNames(_, _, _)
AppendNames(tool_calls, tcs, k) ==
  IF k > Len(tcs) THEN tool_calls
  ELSE AppendNames(Append(tool_calls, lower(tcs[k].name)), tcs, k + 1)

RECURSIVE ExtractFrom(_, _, _)
ExtractFrom(tool_calls, msgs, i) ==
  IF i > Len(msgs) THEN tool_calls
  ELSE ExtractFrom(IF hasattr_tool_calls(msgs[i]) /\ msgs[i].tool_calls # <<>>
                   THEN AppendNames(tool_calls, msgs[i].tool_calls, 1)
                   ELSE tool_calls, msgs, i + 1)

extract_tool_calls(msgs) == ExtractFrom(<<>>, msgs, 1)

\* [call for call in expected_calls if call.lower() not in extracted_tool_calls]
missing_calls(expected_calls, extracted_tool_calls) ==
  SelectSeq(expected_calls,
            LAMBDA call : \A j \in 1..Len(extracted_tool_calls) : extracted_tool_calls[j] # lower(call))

\* the run under test returns one more message: an assistant turn or a tool result
invoke_adds_message(role) ==
  /\ test_run.pc = "running"
  /\ Len(test_run.messages) < MaxMessages
  /\ test_run' = [test_run EXCEPT !.messages =
                    Append(@, IF role = "ai" THEN AIMsg(Len(@) + 1, <<>>) ELSE ToolMsg(<<"observation">>, 0))]
  /\ UNCHANGED <<graph_vars, store, last_request, memory_call>>

\* the assistant turn the run ends with so far proposes one more tool call
invoke_adds_tool_call(name) ==
  /\ test_run.pc = "running"
  /\ test_run.messages # <<>>
  /\ LET n == Len(test_run.messages)
         last_message == test_run.messages[n]
     IN  /\ last_message.role = "ai"
         /\ SumCalls(test_run.messages) < MaxProposed
         /\ test_run' = [test_run EXCEPT !.messages[n].tool_calls =
                           Append(@, ToolCall(name, ORIG, SumCalls(test_run.messages) + 1))]
  /\ UNCHANGED <<graph_vars, store, last_request, memory_call>>

\* the dataset names one more expected call for the case
parametrize_expected_call(call) ==
  /\ test_run.pc = "running"
  /\ Len(test_run.expected_calls) < MaxExpected
  /\ test_run' = [test_run EXCEPT !.expected_calls = Append(@, call)]
  /\ UNCHANGED <<graph_vars, store, last_request, memory_call>>

\* extracted_tool_calls = extract_tool_calls(result['messages'])
test_extracts_tool_calls ==
  /\ test_run.pc = "running"
  /\ test_run' = [test_run EXCEPT !.extracted_tool_calls = extract_tool_calls(test_run.messages),
                                  !.pc = "extracted"]
  /\ UNCHANGED <<graph_vars, store, last_request, memory_call>>

\* missing_calls is computed and the test asserts that it is empty
test_asserts_none_missing ==
  /\ test_run.pc = "extracted"
  /\ LET missing == missing_calls(test_run.expected_calls, test_run.extracted_tool_calls)
     IN  test_run' = [test_run EXCEPT !.missing_calls = missing,
                                      !.pc = IF Len(missing) = 0 THEN "passed" ELSE "failed"]
  /\ UNCHANGED <<graph_vars, store, last_request, memory_call>>

NextTest ==
  \/ \E role \in {"ai", "tool"} : invoke_adds_message(role)
  \/ \E name \in TestNames : invoke_adds_tool_call(name)
  \/ \E call \in TestNames : parametrize_expected_call(call)
  \/ test_extracts_tool_calls
  \/ test_asserts_none_missing

SpecTest == Init /\ [][NextTest]_vars

\* =================================================================== claims
Range(f) == {f[i] : i \in DOMAIN f}

TurnOf(id) == id \div (MaxProposed + 1)

\* the tool calls of the assistant message of a turn, as stored now
ToolCallsOfTurn(t, turn) ==
  UNION {Range(messages[t][i].tool_calls) :
           i \in {j \in 1..Len(messages[t]) : messages[t][j].role = "ai" /\ messages[t][j].id = turn}}

\* where the node execution that logged position p began
ExecutionStart(l, p) ==
  LET nodes == {q \in 1..p : l[q].ev = "node"}
  IN  IF nodes = {} THEN 0 ELSE CHOOSE q \in nodes : \A r \in nodes : r <= q

\* the profile a verdict on a tool of this kind has to update, None if there is none
UpdateNs(name, type) ==
  IF type = "ignore" THEN TRIAGE_NS
  ELSE IF type \in {"edit", "response"} /\ name = "write_email" THEN RESPONSE_NS
  ELSE IF type \in {"edit", "response"} /\ name = "schedule_meeting" THEN CAL_NS
  ELSE None

\* between positions a and p of the log, the verdict logged at a was applied in full
FullyApplied(l, a, p, tc) ==
  LET type == l[a].args
      between == (a + 1)..(p - 1)
  IN  /\ type \in {"accept", "edit"} =>
           \E b \in between : /\ l[b].ev = "exec" /\ l[b].id = tc.id
                              /\ l[b].args = (IF type = "edit" THEN EDITED ELSE ORIG)
      /\ type \in {"ignore", "response"} =>
           ~\E b \in between : l[b].ev = "exec" /\ l[b].id = tc.id
      /\ \E b \in between : l[b].ev = "result" /\ l[b].id = tc.id
      /\ UpdateNs(tc.name, type) # None =>
           \E b \in between : l[b].ev = "update" /\ l[b].id = tc.id
                              /\ l[b].ns = UpdateNs(tc.name, type)

\* reviewable tool calls of the same turn proposed before the call with this id
EarlierReviewable(t, id) ==
  {tc \in ToolCallsOfTurn(t, TurnOf(id)) : tc.id < id /\ tc.name \in hitl_tools}

ToolReviews(t) == {p \in 1..Len(log[t]) : log[t][p].ev = "review" /\ log[t][p].id # 0}

\* C1: the reviewable tool calls of one assistant turn are reviewed one
\* suspension per call, in the order proposed, and when the review of a call
\* starts, every reviewable call proposed before it in the turn has had its own
\* review and its verdict applied in full by the same execution of the
\* handler: tool run or refused, tool result produced, preference update issued.
C1_SequentialReview ==
  \A t \in Threads : \A p \in ToolReviews(t) :
    LET l == log[t]
        start == ExecutionStart(l, p)
    IN  /\ \A q \in ToolReviews(t) : q # p => l[q].id # l[p].id
        /\ \A q \in ToolReviews(t) :
             (q < p /\ TurnOf(l[q].id) = TurnOf(l[p].id)) => l[q].id < l[p].id
        /\ \A tc \in EarlierReviewable(t, l[p].id) :
             /\ \E q \in ToolReviews(t) : q < start /\ l[q].id = tc.id
             /\ \E a \in (start + 1)..(p - 1) :
                  l[a].ev = "verdict" /\ l[a].id = tc.id /\ FullyApplied(l, a, p, tc)

\* C1 witness: the second reviewable call of a turn is under review
C1_Witness ==
  \E t \in Threads : \E p \in ToolReviews(t) :
    /\ EarlierReviewable(t, log[t][p].id) # {}
    /\ status[t] = "interrupted"
    /\ pending[t] # <<>> /\ pending[t][1].id = log[t][p].id

\* C2: a thread has zero or one pending Review Request; it awaits human input
\* exactly when one is pending; the reply that reports a suspension carries
\* exactly that one request.
C2_OnePendingRequest ==
  \A t \in Threads :
    /\ Len(pending[t]) <= 1
    /\ status[t] = "interrupted" <=> Len(pending[t]) = 1
    /\ reply[t].status = "interrupted" => Len(reply[t].interrupt) = 1
    /\ (status[t] = "interrupted" /\ reply[t].status = "interrupted")
         => reply[t].interrupt = <<InterruptInfo(pending[t][1])>>

\* C2 witness: a turn of two reviewable calls is suspended on its first call
C2_Witness ==
  \E t \in Threads :
    /\ status[t] = "interrupted" /\ Len(pending[t]) = 1 /\ reply[t].status = "interrupted"
    /\ Cardinality({tc \in ToolCallsOfTurn(t, TurnOf(pending[t][1].id)) : tc.name \in hitl_tools}) >= 2

\* the thread's last call that reached the graph was a resume that found no
\* suspension pending, and it is still being served
ServingStrayResume(t) ==
  /\ status[t] = "running"
  /\ LastCall(log[t]) = "resume"
  /\ \E p \in 1..Len(log[t]) :
       /\ log[t][p].ev = "call" /\ log[t][p].args # "interrupted"
       /\ \A q \in (p + 1)..Len(log[t]) : log[t][q].ev # "call"

\* C3: a resume call on a thread that is unknown, finished or has no pending
\* suspension is answered with a client error and changes neither the
\* conversation, the classification, the pending requests nor the Memory Store.
C3_ResumeWithoutSuspension ==
  [][\A t \in MainThreads :
       /\ \A v \in Verdicts :
            (process_email_hitl_endpoint(t, v) /\ pending[t] = <<>>)
              => /\ UNCHANGED <<messages, classification_decision, pending, store>>
                 /\ status'[t] # "running" => reply'[t].status = "error"
       /\ ServingStrayResume(t)
              => /\ UNCHANGED <<messages, classification_decision, pending, store>>
                 /\ status'[t] # "running" => reply'[t].status = "error"]_vars

\* ---------------------------------------------------------- log queries
Events(t, kind, id) == {p \in 1..Len(log[t]) : log[t][p].ev = kind /\ log[t][p].id = id}

\* tool calls of the run on which a verdict of this type was applied
Judged(t, names, type) ==
  {log[t][p].id : p \in {q \in 1..Len(log[t]) :
      log[t][q].ev = "verdict" /\ log[t][q].name \in names /\ log[t][q].args = type}}

ToolResults(t, id) ==
  {i \in 1..Len(messages[t]) : messages[t][i].role = "tool" /\ messages[t][i].tool_call_id = id}

\* the handler has returned for the turn of this tool call: its result is stored
ResultStored(t, id) == ToolResults(t, id) # {}

NodeEntries(t, node, after) ==
  {p \in (after + 1)..Len(log[t]) : log[t][p].ev = "node" /\ log[t][p].name = node}

FirstEvent(t, kind, id) == CHOOSE p \in Events(t, kind, id) : \A q \in Events(t, kind, id) : p <= q

UpdatesOf(t, ns) == {p \in 1..Len(log[t]) : log[t][p].ev = "update" /\ log[t][p].ns = ns}

AllUpdates(t) == UNION {UpdatesOf(t, ns) : ns \in Namespaces}

\* the handler has just returned: the conversation ends with a tool result
HandlerJustReturned(t) ==
  /\ variant[t] = HITL
  /\ messages[t] # <<>> /\ messages[t][Len(messages[t])].role = "tool"

\* C4: a write_email proposal answered with edit is executed with the edited
\* arguments, its tool result shows them, and the verdict causes exactly one
\* preference-update call, on response_preferences.
C4_EditWriteEmail ==
  \A t \in Threads : \A id \in Judged(t, {"write_email"}, "edit") :
    ResultStored(t, id) =>
      /\ \A i \in ToolResults(t, id) : messages[t][i].content = Invoke("write_email", EDITED)
      /\ Events(t, "exec", id) # {}
      /\ \A p \in Events(t, "exec", id) : log[t][p].args = EDITED
      /\ Cardinality(Events(t, "update", id)) = 1
      /\ \A p \in Events(t, "update", id) : log[t][p].ns = RESPONSE_NS

\* C5: a write_email or schedule_meeting proposal answered with ignore is not
\* executed, gets one refusal tool result with its id, updates
\* triage_preferences, and ends the run: llm_call is not entered again.
C5_IgnoreEndsRun ==
  \A t \in Threads : \A id \in Judged(t, {"write_email", "schedule_meeting"}, "ignore") :
    ResultStored(t, id) =>
      /\ Events(t, "exec", id) = {}
      /\ Cardinality(ToolResults(t, id)) = 1
      /\ \A i \in ToolResults(t, id) : messages[t][i].content[1] = "ignored"
      /\ \E p \in Events(t, "update", id) : log[t][p].ns = TRIAGE_NS
      /\ nxt[t] = END /\ status[t] = "completed"
      /\ NodeEntries(t, "llm_call", FirstEvent(t, "verdict", id)) = {}

\* C6: a Question proposal answered with ignore ends the run, writes neither
\* response_preferences nor cal_preferences, and updates triage_preferences.
C6_IgnoreQuestion ==
  \A t \in Threads : \A id \in Judged(t, {"Question"}, "ignore") :
    ResultStored(t, id) =>
      /\ \A p \in Events(t, "update", id) : log[t][p].ns = TRIAGE_NS
      /\ Events(t, "update", id) # {}
      /\ nxt[t] = END /\ status[t] = "completed"

\* C7: a notify email whose review is answered with ignore ends the run
\* without entering the response loop; the stored classification is still
\* notify and triage_preferences got exactly one update call, the only one.
C7_NotifyIgnored ==
  \A t \in Threads :
    (variant[t] = HITL /\ 0 \in Judged(t, {"triage"}, "ignore")) =>
      /\ status[t] = "completed" /\ nxt[t] = END
      /\ classification_decision[t] = "notify"
      /\ NodeEntries(t, "llm_call", 0) = {} /\ NodeEntries(t, "interrupt_handler", 0) = {}
      /\ Cardinality(UpdatesOf(t, TRIAGE_NS)) = 1
      /\ AllUpdates(t) = UpdatesOf(t, TRIAGE_NS)
      /\ \A p \in 1..Len(log[t]) : log[t][p].ev # "exec"

\* C7 witness: the review of a notify email was answered with ignore
C7_Witness ==
  \E t \in Threads : variant[t] = HITL /\ 0 \in Judged(t, {"triage"}, "ignore")

\* C8: a write_email or schedule_meeting proposal answered with accept is run
\* with its original arguments, adds exactly one tool result with its id,
\* causes no preference update, hands control back to llm_call, and leaves
\* the classification as triage set it (respond, when triage said respond).
C8_Accept ==
  \A t \in Threads : \A id \in Judged(t, {"write_email", "schedule_meeting"}, "accept") :
    ResultStored(t, id) =>
      /\ Cardinality(ToolResults(t, id)) = 1
      /\ \A i \in ToolResults(t, id) :
           \E name \in {"write_email", "schedule_meeting"} : messages[t][i].content = Invoke(name, ORIG)
      /\ Events(t, "exec", id) # {}
      /\ \A p \in Events(t, "exec", id) : log[t][p].args = ORIG
      /\ Events(t, "update", id) = {}
      /\ classification_decision[t] =
           (IF Events(t, "verdict", 0) = {} THEN "respond" ELSE "notify")
      /\ (HandlerJustReturned(t) /\ TurnOf(id) = AITurns(t))
           => (nxt[t] = "llm_call" /\ status[t] # "completed")

\* C8 witness: an accepted schedule_meeting has its result stored and the run
\* is back at the tool-selection step
C8_Witness ==
  \E t \in Threads : \E id \in Judged(t, {"schedule_meeting"}, "accept") :
    /\ ResultStored(t, id) /\ HandlerJustReturned(t) /\ TurnOf(id) = AITurns(t)
    /\ classification_decision[t] = "respond"

\* C9: the handler never suspends on a tool call outside the human-review set:
\* no Review Request is raised or left pending for check_calendar_availability
\* or Done, which are run at once.
C9_NoReviewOutsideSet ==
  \A t \in Threads :
    /\ \A p \in ToolReviews(t) : log[t][p].name \in {"write_email", "schedule_meeting", "Question"}
    /\ \A i \in 1..Len(pending[t]) :
         pending[t][i].id # 0 => pending[t][i].action \in {"write_email", "schedule_meeting", "Question"}
    /\ \A i \in 1..Len(reply[t].interrupt) :
         reply[t].interrupt[i].action \notin {"check_calendar_availability", "Done"}

\* C9 witness: the HITL handler has run check_calendar_availability and Done
C9_Witness ==
  \E t \in Threads :
    /\ variant[t] = HITL
    /\ \E p, q \in 1..Len(log[t]) :
         /\ log[t][p].ev = "exec" /\ log[t][p].name = "check_calendar_availability"
         /\ log[t][q].ev = "exec" /\ log[t][q].name = "Done"

\* C10: a run whose email is classified ignore is finished, in both variants,
\* with no tool executed, no suspension and no preference update.
C10_IgnoreClassification ==
  \A t \in Threads :
    classification_decision[t] = "ignore" =>
      /\ status[t] = "completed" /\ nxt[t] = END
      /\ pending[t] = <<>> /\ messages[t] = <<>>
      /\ \A p \in 1..Len(log[t]) : log[t][p].ev \notin {"exec", "update", "review", "verdict"}
      /\ NodeEntries(t, "llm_call", 0) = {}

\* C10 witness: a HITL run classified ignore
C10_Witness ==
  \E t \in Threads : variant[t] = HITL /\ classification_decision[t] = "ignore"

\* C11: once triage has stored a classification for a run, no later step of
\* the run changes it: not the tool-selection steps, not a suspension, not a
\* verdict (the response verdict on a notify email included), not a
\* preference update.
C11_ClassificationStable ==
  [][\A t \in Threads :
       classification_decision[t] # None
         => classification_decision'[t] = classification_decision[t]]_vars

\* C11 witness: a notify email was answered with a response verdict, the
\* response loop has proposed tool calls, and the classification is still notify
C11_Witness ==
  \E t \in Threads :
    /\ classification_decision[t] = "notify"
    /\ 0 \in Judged(t, {"triage"}, "response")
    /\ AITurns(t) >= 1
    /\ AllUpdates(t) # {}

\* the closest assistant message before position i of a conversation, 0 if none
PrecedingAI(msgs, i) ==
  LET ais == {j \in 1..(i - 1) : msgs[j].role = "ai"}
  IN  IF ais = {} THEN 0 ELSE CHOOSE j \in ais : \A k \in ais : k <= j

\* C12: in every conversation, of either variant, each tool-result message
\* carries a tool-call id found in the tool-call list of the closest assistant
\* message before it.
C12_ResultsCorrelated ==
  \A t \in Threads : \A i \in 1..Len(messages[t]) :
    messages[t][i].role = "tool" =>
      LET j == PrecedingAI(messages[t], i)
      IN  /\ j # 0
          /\ \E k \in 1..Len(messages[t][j].tool_calls) :
               messages[t][j].tool_calls[k].id = messages[t][i].tool_call_id

\* C12 witness: tool results stored after an assistant message of two tool
\* calls, one of which was replaced by an edit verdict
C12_Witness ==
  \E t \in Threads : \E i \in 1..Len(messages[t]) :
    /\ messages[t][i].role = "tool"
    /\ LET j == PrecedingAI(messages[t], i)
       IN  /\ j # 0 /\ Len(messages[t][j].tool_calls) = 2
           /\ \E k \in 1..2 : messages[t][j].tool_calls[k].args = EDITED

\* positions of the log where a verdict of one of these types on a tool of one
\* of these names was handed to a handler
VerdictsAt(t, names, types) ==
  {a \in 1..Len(log[t]) :
     log[t][a].ev = "verdict" /\ log[t][a].name \in names /\ log[t][a].args \in types}

\* the execution that took the verdict logged at position a stopped there with
\* an error: it did nothing after taking the verdict, and the call it served
\* was answered with an error and left the run neither running nor finished
AbortedAt(t, a) ==
  /\ a < Len(log[t]) => log[t][a + 1].ev = "call"
  /\ a = Len(log[t]) => (status[t] \in {"interrupted", "failed"} /\ reply[t].status = "error")

\* C13: an accept or an edit verdict on a pending Question review fails the
\* run: the Question tool is not executed, no tool result is produced for the
\* call and no preference update is issued.
C13_QuestionAcceptEditFatal ==
  \A t \in Threads : \A a \in VerdictsAt(t, {"Question"}, {"accept", "edit"}) : AbortedAt(t, a)

\* the same for the edit verdict alone
C13_QuestionEditFatal ==
  \A t \in Threads : \A a \in VerdictsAt(t, {"Question"}, {"edit"}) : AbortedAt(t, a)

UnregisteredCalls(t) ==
  {tc \in UNION {Range(messages[t][i].tool_calls) : i \in 1..Len(messages[t])} :
     tc.name = UNREGISTERED_TOOL}

\* the assistant turn of this id also proposes Done
TurnHasDone(t, id) == \E tc \in ToolCallsOfTurn(t, TurnOf(id)) : tc.name = "Done"

\* C15: a proposed tool call that names an unregistered tool fails the run, in
\* both variants: the run never finishes, no tool result is stored for the
\* call and no Review Request is raised for it.
C15_UnregisteredToolFatal ==
  \A t \in Threads : \A tc \in UnregisteredCalls(t) :
    /\ status[t] # "completed"
    /\ ToolResults(t, tc.id) = {}
    /\ Events(t, "review", tc.id) = {} /\ Events(t, "exec", tc.id) = {}
    /\ \A i \in 1..Len(pending[t]) : pending[t][i].id # tc.id

\* the same for the turns that do not propose Done as well
C15_UnregisteredToolFatalNoDone ==
  \A t \in Threads : \A tc \in UnregisteredCalls(t) :
    ~TurnHasDone(t, tc.id) =>
      /\ status[t] # "completed"
      /\ ToolResults(t, tc.id) = {}
      /\ Events(t, "review", tc.id) = {} /\ Events(t, "exec", tc.id) = {}
      /\ \A i \in 1..Len(pending[t]) : pending[t][i].id # tc.id

\* positions of the log where the classifier returned a value outside the enumeration
InvalidClassifications(t) ==
  {a \in 1..Len(log[t]) : log[t][a].ev = "node" /\ log[t][a].name = INVALID_CLASSIFICATION}

\* C16: when the classifier yields a value other than respond, ignore, notify,
\* the triage step fails the run at once, in both variants: the call is
\* answered with an error, the value is never stored as the classification, no
\* node runs after the triage step in that call (no response loop, no review,
\* no second attempt), and the thread is left at the triage step with no
\* message and no pending request.
C16_InvalidClassificationFatal ==
  \A t \in Threads :
    /\ classification_decision[t] # INVALID_CLASSIFICATION
    /\ \A a \in InvalidClassifications(t) :
         /\ AbortedAt(t, a)
         /\ a = Len(log[t]) =>
              /\ status[t] = "failed" /\ nxt[t] = "triage_router"
              /\ classification_decision[t] = None
              /\ messages[t] = <<>> /\ pending[t] = <<>>

\* C16 witness: the triage step of a HITL run has just failed on an invalid classification
C16_Witness ==
  \E t \in Threads :
    /\ variant[t] = HITL /\ log[t] # <<>> /\ Len(log[t]) \in InvalidClassifications(t)
    /\ reply[t] = ErrorReply(500)

\* C17: a write_email or schedule_meeting proposal answered with a response
\* verdict is not executed, gets exactly one tool result with its id carrying
\* the feedback text, updates the profile of its kind (response_preferences
\* for write_email, cal_preferences for schedule_meeting) and no other, and
\* hands control back to llm_call rather than ending the run.
C17_ResponseOnDraft ==
  \A t \in Threads : \A name \in {"write_email", "schedule_meeting"} :
    \A id \in Judged(t, {name}, "response") :
      ResultStored(t, id) =>
        /\ Events(t, "exec", id) = {}
        /\ Cardinality(ToolResults(t, id)) = 1
        /\ \A i \in ToolResults(t, id) : messages[t][i].content = <<"feedback", name, FEEDBACK>>
        /\ Events(t, "update", id) # {}
        /\ \A p \in Events(t, "update", id) : log[t][p].ns = UpdateNs(name, "response")
        /\ (HandlerJustReturned(t) /\ TurnOf(id) = AITurns(t))
             => (nxt[t] = "llm_call" /\ status[t] # "completed")

\* C17 witness: feedback on a schedule_meeting proposal is stored and the run
\* is back at the tool-selection step
C17_Witness ==
  \E t \in Threads : \E id \in Judged(t, {"schedule_meeting"}, "response") :
    /\ ResultStored(t, id) /\ HandlerJustReturned(t) /\ TurnOf(id) = AITurns(t)
    /\ store[CAL_NS] \in LLMTexts

\* C18: a Question proposal answered with a response verdict gets exactly one
\* tool result carrying the answer text, the verdict writes no preference
\* profile in any namespace, and control goes back to llm_call.
C18_ResponseOnQuestion ==
  \A t \in Threads : \A id \in Judged(t, {"Question"}, "response") :
    ResultStored(t, id) =>
      /\ Events(t, "exec", id) = {}
      /\ Cardinality(ToolResults(t, id)) = 1
      /\ \A i \in ToolResults(t, id) : messages[t][i].content = <<"feedback", "Question", FEEDBACK>>
      /\ Events(t, "update", id) = {}
      /\ (AllUpdates(t) = {} => \A ns \in Namespaces : store[ns] \notin LLMTexts)
      /\ (HandlerJustReturned(t) /\ TurnOf(id) = AITurns(t))
           => (nxt[t] = "llm_call" /\ status[t] # "completed")

\* C18 witness: the answer to a Question is stored, no profile has been
\* rewritten, and the run is back at the tool-selection step
C18_Witness ==
  \E t \in Threads : \E id \in Judged(t, {"Question"}, "response") :
    /\ ResultStored(t, id) /\ HandlerJustReturned(t) /\ TurnOf(id) = AITurns(t)
    /\ AllUpdates(t) = {} /\ nxt[t] = "llm_call"

\* ids of the tool calls on which a log records an edit verdict
EditedIds(l) == {l[p].id : p \in {q \in 1..Len(l) : l[q].ev = "verdict" /\ l[q].args = "edit"}}

\* new is old up to the arguments of the tool calls with these ids, which may
\* have become the edited arguments
SameButEdited(old, new, ids) ==
  /\ new.id = old.id /\ new.role = old.role /\ new.content = old.content
  /\ new.tool_call_id = old.tool_call_id
  /\ Len(new.tool_calls) = Len(old.tool_calls)
  /\ {tc.id : tc \in Range(new.tool_calls)} = {tc.id : tc \in Range(old.tool_calls)}
  /\ \A o \in Range(old.tool_calls) : \E n \in Range(new.tool_calls) :
       /\ n.id = o.id /\ n.name = o.name
       /\ n.args = o.args \/ (n.args = EDITED /\ o.id \in ids)

\* C19: a step of the review handler changes the stored conversation only by
\* appending tool results and, for edit verdicts, by replacing in the most
\* recent assistant message the arguments of the edited tool calls: that
\* message keeps its id and its position, its set of tool-call ids and the
\* name and arguments of every other tool call stay as they were, no earlier
\* message changes; and the replacement is made on a copy, so an execution that
\* is suspended or fails after an edit leaves the stored conversation as it was.
C19_EditFrame ==
  [][\A t \in Threads :
       Running(t, HITL, "interrupt_handler") =>
         LET old == messages[t]
             new == messages'[t]
             n == Len(old)
         IN  /\ Len(new) >= n
             /\ \A i \in 1..(n - 1) : new[i] = old[i]
             /\ SameButEdited(old[n], new[n], EditedIds(log'[t]))
             /\ \A i \in (n + 1)..Len(new) : new[i].role = "tool"
             /\ status'[t] \in {"interrupted", "failed"} => new = old]_vars

\* C19 witness: the stored assistant message of two tool calls has one call
\* with the edited arguments and the other as proposed
C19_Witness ==
  \E t \in Threads : \E i \in 1..Len(messages[t]) :
    /\ messages[t][i].role = "ai" /\ Len(messages[t][i].tool_calls) = 2
    /\ \E o, e \in Range(messages[t][i].tool_calls) :
         /\ o.args = ORIG /\ e.args = EDITED
         /\ e.id \in Judged(t, {"write_email", "schedule_meeting"}, "edit")

\* the verdicts a Review Request for a tool of this kind has to offer
AllowedFor(name) ==
  IF name \in {"write_email", "schedule_meeting"} THEN {"accept", "edit", "ignore", "respond"}
  ELSE {"ignore", "respond"}

\* C20: the allowed verdicts of a Review Request depend on the tool kind alone:
\* accept, edit, ignore, respond for write_email and schedule_meeting, ignore
\* and respond for Question; the reply that reports the suspension lists
\* exactly that set, each action once.
C20_AllowedActions ==
  \A t \in Threads :
    /\ \A i \in 1..Len(pending[t]) :
         pending[t][i].action \in hitl_tools =>
           Range(_get_allowed_actions(pending[t][i].config)) = AllowedFor(pending[t][i].action)
    /\ \A i \in 1..Len(reply[t].interrupt) :
         reply[t].interrupt[i].action \in hitl_tools =>
           /\ Range(reply[t].interrupt[i].allowed_actions) = AllowedFor(reply[t].interrupt[i].action)
           /\ Len(reply[t].interrupt[i].allowed_actions)
                = Cardinality(AllowedFor(reply[t].interrupt[i].action))

\* C20 witness: a Question review is pending and reported, after a
\* write_email review of the same turn
C20_Witness ==
  \E t \in Threads :
    /\ status[t] = "interrupted" /\ Len(pending[t]) = 1 /\ pending[t][1].action = "Question"
    /\ reply[t].status = "interrupted" /\ reply[t].interrupt[1].action = "Question"
    /\ Judged(t, {"write_email"}, "accept") # {}

\* the last message of the conversation is an assistant turn whose only tool call is Done
DoneOnlyTurn(t) ==
  /\ messages[t] # <<>>
  /\ LET m == messages[t][Len(messages[t])]
     IN  m.role = "ai" /\ Len(m.tool_calls) = 1 /\ m.tool_calls[1].name = "Done"

\* C21: when the tool-selection step emits a turn whose only tool call is
\* Done, the run is finished, in both variants: the Done call is not executed,
\* no review is raised for it, nothing is pending and no preference update is
\* issued for it.
C21_DoneOnlyEndsRun ==
  \A t \in Threads :
    DoneOnlyTurn(t) =>
      LET id == messages[t][Len(messages[t])].tool_calls[1].id
      IN  /\ status[t] = "completed" /\ nxt[t] = END
          /\ pending[t] = <<>>
          /\ Events(t, "exec", id) = {} /\ Events(t, "review", id) = {}
          /\ Events(t, "update", id) = {} /\ ToolResults(t, id) = {}
          /\ log[t][Len(log[t])] = NodeEvent("llm_call")

\* C21 witness: a HITL run that had a tool turn before ends on a turn of Done alone
C21_Witness ==
  \E t \in Threads :
    /\ variant[t] = HITL /\ DoneOnlyTurn(t) /\ AITurns(t) = 2
    /\ \E p \in 1..Len(log[t]) : log[t][p].ev = "exec"

\* a tool call the thread's graph runs at once, without a review: in the HITL
\* agent the calls outside hitl_tools, in the plain agent every call
RunsAtOnce(t, tc) == variant[t] = PLAIN \/ tc.name \notin hitl_tools

\* the one position of the result of a tool call in the conversation
ResultIndex(t, id) == CHOOSE i \in ToolResults(t, id) : TRUE

\* C22: tool calls outside the human-review set are executed in the order of
\* the assistant turn that proposed them (within every execution of the
\* handler, the earlier call is invoked before the later one); once the handler
\* has returned, each has exactly one tool-result message carrying its id and
\* the observation of its own arguments, and these result messages stand in
\* the conversation in the order of the tool calls.
C22_AutoToolsInOrder ==
  \A t \in Threads : \A n \in 1..Len(messages[t]) :
    LET m == messages[t][n]
    IN  m.role = "ai" =>
          /\ \A i \in 1..Len(m.tool_calls) :
               LET tc == m.tool_calls[i]
               IN  (RunsAtOnce(t, tc) /\ \E j \in 1..Len(m.tool_calls) : ResultStored(t, m.tool_calls[j].id)) =>
                     /\ Cardinality(ToolResults(t, tc.id)) = 1
                     /\ messages[t][ResultIndex(t, tc.id)].content = Invoke(tc.name, tc.args)
                     /\ ResultIndex(t, tc.id) > n
                     /\ Events(t, "exec", tc.id) # {}
          /\ \A i, j \in 1..Len(m.tool_calls) :
               LET a == m.tool_calls[i]
                   b == m.tool_calls[j]
               IN  (i < j /\ RunsAtOnce(t, a) /\ RunsAtOnce(t, b)) =>
                     /\ \A p \in Events(t, "exec", b.id) :
                          \E q \in Events(t, "exec", a.id) :
                            q < p /\ ExecutionStart(log[t], q) = ExecutionStart(log[t], p)
                     /\ (ResultStored(t, a.id) /\ ResultStored(t, b.id)) =>
                          ResultIndex(t, a.id) < ResultIndex(t, b.id)

C22_Witness ==
  \E t \in Threads : \E n \in 1..Len(messages[t]) :
    LET m == messages[t][n]
    IN  /\ variant[t] = HITL /\ m.role = "ai" /\ Len(m.tool_calls) = 2
        /\ \A i \in 1..2 : m.tool_calls[i].name \notin hitl_tools /\ ResultStored(t, m.tool_calls[i].id)
        /\ m.tool_calls[1].id # m.tool_calls[2].id

\* ------------------------------------------------- the memory functions
\* the step in which this caller's get_memory or update_memory does its store.put
PutStep(t, op) ==
  /\ memory_call[t].op = op /\ memory_call[t].pc # "returned"
  /\ memory_call'[t].pc = "returned"

\* the step in which this caller's call does its store.get
ReadStep(t, op) ==
  /\ memory_call[t].pc = "returned"
  /\ memory_call'[t] # memory_call[t] /\ memory_call'[t].op = op

\* C23: get_memory on a namespace with no stored profile returns the supplied
\* default and stores it: when the call returns, the namespace holds the
\* default, and get_memory on the store as it then is returns that default
\* whatever default it is given; a get_memory that finds a profile returns it
\* and writes nothing.
C23_GetMemoryWriteOnRead ==
  [][\A t \in Threads :
       /\ PutStep(t, "get_memory") =>
            LET ns == memory_call[t].ns
                default_content == memory_call[t].arg
            IN  /\ memory_call'[t].value = default_content
                /\ StoreGet(store', ns) = default_content
                /\ \A other \in Defaults \cup {None} :
                     get_memory_value(store', ns, other) = default_content
                /\ get_memory_store(store', ns, default_content) = store'
                /\ \A o \in Namespaces \ {ns} : store'[o] = store[o]
       /\ ReadStep(t, "get_memory") =>
            LET ns == memory_call'[t].ns
            IN  /\ store' = store
                /\ IF StoreGet(store, ns) = None
                   THEN memory_call'[t].pc = "absent"
                   ELSE memory_call'[t].pc = "returned" /\ memory_call'[t].value = StoreGet(store, ns)
    ]_vars

\* two callers' get_memory calls on one namespace, empty at first, have both
\* returned the default, and the namespace holds it
C23_Witness ==
  \E t, u \in Threads :
    /\ t # u
    /\ memory_call[t].op = "get_memory" /\ memory_call[u].op = "get_memory"
    /\ memory_call[t].ns = memory_call[u].ns
    /\ memory_call[t].pc = "returned" /\ memory_call[u].pc = "returned"
    /\ memory_call[t].value = memory_call[t].arg /\ memory_call[u].value = memory_call[t].arg
    /\ store[memory_call[t].ns] = memory_call[t].arg

\* C24: update_memory reads the current profile of its namespace, or the
\* sentinel "No existing preferences" when none is stored; when it returns, the
\* stored profile of that namespace is exactly the text the summarizer
\* returned, whatever was stored before, and the profiles of all other
\* namespaces are as they were.
C24_UpdateMemoryOverwrites ==
  [][\A t \in Threads :
       /\ ReadStep(t, "update_memory") =>
            LET ns == memory_call'[t].ns
            IN  /\ store' = store
                /\ memory_call'[t].value =
                     (IF store[ns] = None THEN NO_EXISTING ELSE store[ns])
       /\ \A text \in SummarizerTexts :
            (PutStep(t, "update_memory") /\ memory_call'[t].arg = text) =>
              LET ns == memory_call[t].ns
              IN  /\ store'[ns] = text
                  /\ \A o \in Namespaces \ {ns} : store'[o] = store[o]
    ]_vars

\* an update has replaced a stored profile by another text while the other
\* namespaces hold profiles of their own
C24_Witness ==
  \E t \in Threads :
    /\ memory_call[t].op = "update_memory" /\ memory_call[t].pc = "returned"
    /\ memory_call[t].value \in SummarizerTexts
    /\ memory_call[t].arg # memory_call[t].value
    /\ store[memory_call[t].ns] = memory_call[t].arg
    /\ \A o \in Namespaces \ {memory_call[t].ns} : store[o] # None

\* C25: updates of one namespace by two callers can race. Nothing serialises
\* them: a caller may read a namespace for an update while another update of
\* it is between its read and its write, and a write is never held back or
\* refused because the profile changed since it was read.
C25_NoLocking ==
  \A t \in Threads :
    /\ CallReturned(t) => \A ns \in Namespaces : ENABLED update_memory_reads(t, ns)
    /\ (memory_call[t].op = "update_memory" /\ memory_call[t].pc = "summarizing") =>
         \A text \in SummarizerTexts : ENABLED update_memory_puts(t, text)

\* the race: two callers read "nothing stored" for the same namespace, both
\* wrote, and the profile is the text of one of them alone
C25_Witness ==
  \E t, u \in Threads :
    /\ t # u
    /\ memory_call[t].op = "update_memory" /\ memory_call[u].op = "update_memory"
    /\ memory_call[t].pc = "returned" /\ memory_call[u].pc = "returned"
    /\ memory_call[t].ns = memory_call[u].ns
    /\ memory_call[t].value = NO_EXISTING /\ memory_call[u].value = NO_EXISTING
    /\ memory_call[t].arg # memory_call[u].arg
    /\ store[memory_call[t].ns] = memory_call[u].arg

\* ---------------------------------------------------- thread isolation
\* the step is one of thread a: a call on it, or a node of its run
StepOf(a) == log'[a] # log[a] \/ status'[a] # status[a] \/ reply'[a] # reply[a]

\* C26: distinct workflow threads share nothing but the Memory Store: a start,
\* a verdict or a node execution on one thread leaves the conversation, the
\* classification and the pending Review Request of every other thread as they
\* were, and likewise the other thread's place in its graph and its recorded
\* verdicts.
C26_ThreadsIsolated ==
  [][\A a \in Threads :
       StepOf(a) =>
         \A b \in Threads \ {a} :
           /\ messages'[b] = messages[b]
           /\ classification_decision'[b] = classification_decision[b]
           /\ pending'[b] = pending[b]
           /\ status'[b] = status[b] /\ nxt'[b] = nxt[b]
           /\ resumes'[b] = resumes[b] /\ null_resume'[b] = null_resume[b]
           /\ log'[b] = log[b] /\ reply'[b] = reply[b]
    ]_vars

\* the second thread is suspended with a conversation, a classification and a
\* pending Review Request; the first thread was then given its verdict, whose
\* one preference update read the profile the second thread had written
C26_Witness ==
  /\ status[2] = "interrupted" /\ pending[2] # <<>> /\ messages[2] # <<>>
  /\ classification_decision[2] # None
  /\ ResumeCalls(1) = 1 /\ Cardinality(AllUpdates(1)) = 1
  /\ \A p \in AllUpdates(1) : log[1][p].args \in LLMTexts
  /\ AllUpdates(2) # {}

\* ------------------------------------------------------ the plain agent
\* C27 (the part on suspension): a run of the plain agent is never suspended
\* and nothing in it is reviewed; a notify classification ends it at once with
\* no message, no tool run and no preference update.
C27_PlainNeverSuspends ==
  \A t \in Threads :
    variant[t] = PLAIN =>
      /\ status[t] \in {"running", "completed", "failed"}
      /\ pending[t] = <<>> /\ inflight[t] = <<>> /\ resumes[t] = <<>>
      /\ reply[t].status # "interrupted"
      /\ \A p \in 1..Len(log[t]) : log[t][p].ev \notin {"review", "verdict", "update"}
      /\ ResumeCalls(t) = 0
      /\ classification_decision[t] \in {"notify", "ignore"} =>
           /\ status[t] = "completed" /\ nxt[t] = END
           /\ messages[t] = <<>>
           /\ \A p \in 1..Len(log[t]) : log[t][p].ev # "exec"

\* C27: in a finished run of the plain agent every tool call the assistant
\* proposed, Done apart, has been executed and has its result.
C27_PlainExecutesEveryCall ==
  \A t \in Threads :
    (variant[t] = PLAIN /\ status[t] = "completed") =>
      \A n \in 1..Len(messages[t]) : \A i \in 1..Len(messages[t][n].tool_calls) :
        LET tc == messages[t][n].tool_calls[i]
        IN  tc.name # "Done" => (Events(t, "exec", tc.id) # {} /\ ResultStored(t, tc.id))

\* ------------------------------------------------------ request dispatch
\* the entry point started or resumed a graph run on thread t in this step
Called(t, kind) ==
  /\ Len(log'[t]) = Len(log[t]) + 1
  /\ log'[t][Len(log'[t])].ev = "call" /\ log'[t][Len(log'[t])].name = kind

\* C28: the HITL entry point takes a request for a resume exactly when it has
\* both thread_id and human_response, for a new workflow exactly when it has an
\* email and no thread_id, and rejects every other body; a graph run is started
\* only for a request taken as new and resumed only for one taken as a resume
\* of that thread; a rejected request creates and resumes nothing and leaves
\* all stored state as it was.
C28_RequestDispatch ==
  [][LET r == last_request'
     IN  /\ r.taken_as = "resume" <=> (r.thread_id # NoThread /\ r.human_response)
         /\ r.taken_as = "new" <=> (r.email /\ r.thread_id = NoThread)
         /\ r.taken_as = "rejected" <=>
              ~(r.thread_id # NoThread /\ r.human_response) /\ ~(r.email /\ r.thread_id = NoThread)
         /\ \A t \in Threads :
              /\ Called(t, "new") => (r.taken_as = "new" /\ status[t] = "none")
              /\ Called(t, "resume") => (r.taken_as = "resume" /\ r.thread_id = t)
         /\ (r.taken_as = "rejected" /\ r # last_request) =>
              /\ UNCHANGED <<variant, status, nxt, classification_decision, messages, resumes,
                             null_resume, pending, inflight, log, store>>
    ]_vars

\* a request with an email and the id of a suspended thread, but no
\* human_response, was rejected; the thread is still suspended
C28_Witness ==
  /\ last_request.taken_as = "rejected"
  /\ last_request.email /\ last_request.thread_id = 1 /\ ~last_request.human_response
  /\ status[1] = "interrupted" /\ pending[1] # <<>>

\* ------------------------------------------------------ the notify path
\* the thread runs the HITL graph on an email classified notify: triage_router
\* stored that classification, or the notification review has been raised
NotifyRun(t) ==
  variant[t] = HITL /\ (classification_decision[t] = "notify" \/ Events(t, "review", 0) # {})

\* the notification review has been left behind: the run is past triage_interrupt_handler
PastTriageReview(t) == nxt[t] \in {"llm_call", "interrupt_handler", END}

\* C29: a HITL run on an email classified notify is suspended on a Review
\* Request that allows exactly ignore and respond before any tool is executed
\* and before the Response Loop is entered; once a response verdict has been
\* applied, triage_preferences has been updated exactly once for it, the
\* conversation starts with the notify-email message followed by the user's
\* feedback message, the run goes on in the Response Loop, and the
\* classification is still notify.
C29_NotifyReview ==
  \A t \in Threads :
    NotifyRun(t) =>
      /\ classification_decision[t] = "notify"
      /\ (status[t] = "interrupted" /\ nxt[t] = "triage_interrupt_handler") =>
           /\ pending[t] = <<TriageRequest("notify")>>
           /\ _get_allowed_actions(pending[t][1].config) = <<"ignore", "respond">>
           /\ reply[t].status = "interrupted" =>
                /\ reply[t].interrupt[1].allowed_actions = <<"ignore", "respond">>
                /\ reply[t].interrupt[1].action = "Email Assistant: notify"
           /\ messages[t] = <<>>
      /\ nxt[t] = "triage_interrupt_handler" =>
           \A p \in 1..Len(log[t]) : log[t][p].ev \notin {"exec", "update", "result"}
      /\ PastTriageReview(t) =>
           /\ Events(t, "review", 0) # {}
           /\ Cardinality({q \in Events(t, "verdict", 0) : log[t][q].args \in {"response", "ignore"}}) = 1
           /\ \A p \in 1..Len(log[t]) :
                (log[t][p].ev = "exec" \/ (log[t][p].ev = "node" /\ log[t][p].name = "llm_call")) =>
                  \E q \in Events(t, "verdict", 0) : q < p /\ log[t][q].args = "response"
      /\ (PastTriageReview(t) /\ Judged(t, {"triage"}, "response") # {}) =>
           /\ Cardinality(Events(t, "update", 0)) = 1
           /\ \A p \in Events(t, "update", 0) : log[t][p].ns = TRIAGE_NS
           /\ Len(messages[t]) >= 2
           /\ messages[t][1] = UserMsg(<<"notify_email">>)
           /\ messages[t][2] = UserMsg(<<"reply_feedback", FEEDBACK>>)
           /\ \/ status[t] = "running" /\ nxt[t] = "llm_call" /\ Len(messages[t]) = 2
              \/ \E q \in Events(t, "verdict", 0) :
                   log[t][q].args = "response" /\ NodeEntries(t, "llm_call", q) # {}
      /\ (PastTriageReview(t) /\ Judged(t, {"triage"}, "ignore") # {}) =>
           (status[t] = "completed" /\ AITurns(t) = 0)

\* a notify email answered with feedback: the assistant has taken a turn in
\* the Response Loop and its proposal is under review
C29_Witness ==
  \E t \in Threads :
    /\ NotifyRun(t) /\ Judged(t, {"triage"}, "response") # {}
    /\ AITurns(t) >= 1 /\ status[t] = "interrupted" /\ nxt[t] = "interrupt_handler"

\* C30: an accept or an edit verdict on the notification review, which offers
\* neither, fails the execution that takes it: nothing is done after the
\* verdict is taken and the call is answered with an error; no preference
\* update is issued, no message is added to the conversation, and the run is
\* handed neither to the Response Loop nor to its end: it is still before
\* triage_interrupt_handler.
C30_NotifyAcceptEditFatal ==
  \A t \in Threads :
    \A a \in VerdictsAt(t, {"triage"}, {"accept", "edit"}) :
      /\ AbortedAt(t, a)
      /\ \A p \in 1..a : log[t][p].ev \notin {"update", "exec", "result"}
      /\ \A p \in 1..a : ~(log[t][p].ev = "node" /\ log[t][p].name \in {"llm_call", "interrupt_handler"})
      /\ a = Len(log[t]) =>
           /\ messages[t] = <<>>
           /\ nxt[t] = "triage_interrupt_handler" /\ status[t] # "completed"
           /\ classification_decision[t] = "notify"
           /\ store[TRIAGE_NS] = DEFAULT_TRIAGE_INSTRUCTIONS

\* the notification review has just been answered with accept
C30_Witness ==
  \E t \in Threads :
    /\ log[t] # <<>>
    /\ Len(log[t]) \in VerdictsAt(t, {"triage"}, {"accept"})
    /\ reply[t] = ErrorReply(400)

\* tool calls of the run that some execution of the handler has run, or has
\* issued a preference update for
WorkedOn(t) ==
  {log[t][p].id : p \in {q \in 1..Len(log[t]) : log[t][q].ev \in {"exec", "update"} /\ log[t][q].id # 0}}

\* C31: over all suspensions and resumes of a HITL turn, each tool call is
\* executed at most once and the preference update of each verdict is issued
\* at most once: what was done for the calls before a suspension is not done
\* again when the run resumes.
C31_NoRepeatedWork ==
  \A t \in Threads : variant[t] = HITL =>
    \A id \in WorkedOn(t) :
      /\ Cardinality(Events(t, "exec", id)) <= 1
      /\ Cardinality(Events(t, "update", id)) <= 1

\* the arguments the stored conversation shows for the tool call with this id
StoredArgs(t, id) == {tc.args : tc \in {c \in ToolCallsOfTurn(t, TurnOf(id)) : c.id = id}}

\* drafts and invitations of the turn of this call that were answered with edit and
\* whose results are stored
EditedInTurn(t, id) ==
  {j \in Judged(t, {"write_email", "schedule_meeting"}, "edit") : TurnOf(j) = TurnOf(id) /\ ResultStored(t, j)}

\* C32: once the handler has returned for a turn, every tool call of the turn
\* that was answered with edit stands in the stored assistant message with its
\* edited arguments, also when another call of the same turn was edited too.
C32_BothEditsStored ==
  \A t \in Threads : \A id \in Judged(t, {"write_email", "schedule_meeting"}, "edit") :
    ResultStored(t, id) => StoredArgs(t, id) = {EDITED}

\* the same for turns in which one call alone was edited
C32_SingleEditStored ==
  \A t \in Threads : \A id \in Judged(t, {"write_email", "schedule_meeting"}, "edit") :
    (ResultStored(t, id) /\ EditedInTurn(t, id) = {id}) => StoredArgs(t, id) = {EDITED}

\* positions of the log where an ignore verdict on a tool call was applied
IgnoreVerdicts(t) ==
  {a \in 1..Len(log[t]) : log[t][a].ev = "verdict" /\ log[t][a].args = "ignore" /\ log[t][a].id # 0}

\* C33: after an ignore verdict on a tool call of an assistant turn, no tool
\* call proposed after it in that turn is executed or sent for review.
C33_IgnoreStopsTurn ==
  \A t \in Threads : \A a \in IgnoreVerdicts(t) :
    \A p \in (a + 1)..Len(log[t]) :
      (log[t][p].ev \in {"exec", "review"} /\ TurnOf(log[t][p].id) = TurnOf(log[t][a].id))
        => log[t][p].id <= log[t][a].id

\* assistant turns of the stored conversation that propose Done
DoneTurns(t) ==
  {i \in 1..Len(messages[t]) :
     /\ messages[t][i].role = "ai"
     /\ \E k \in 1..Len(messages[t][i].tool_calls) : messages[t][i].tool_calls[k].name = "Done"}

\* a finished run has a tool result for every call proposed next to a Done
C34_NoCallLeftOpen ==
  \A t \in Threads : status[t] = "completed" =>
    \A i \in DoneTurns(t) : \A tc \in Range(messages[t][i].tool_calls) :
      tc.name # "Done" => ResultStored(t, tc.id)

\* the two routing functions decide alike on the turn a conversation ends with
C34_RoutingAgrees ==
  \A t \in Threads :
    (messages[t] # <<>> /\ messages[t][Len(messages[t])].role = "ai") =>
      LET last_message == messages[t][Len(messages[t])]
      IN  should_continue(last_message) = END <=> agent_should_continue(last_message) = END

\* C34: in both variants a turn that proposes Done together with other tool
\* calls, at any position, never ends the run while one of the other calls
\* has no tool-result message, and the routing of the HITL agent and of the
\* plain agent agree on every tool-call list.
C34_DoneWithOtherCalls == C34_NoCallLeftOpen /\ C34_RoutingAgrees

\* the handler of the suspended node, run on the stored state with a verdict
\* of this type, does not raise
AppliesWithoutError(t, type) ==
  \A text \in LLMTexts :
    LET v == [type |-> type, args |-> Verdict(type).args]
        acc == IF nxt[t] = "triage_interrupt_handler"
               THEN triage_interrupt_handler_run(classification_decision[t], store, resumes[t], <<v>>, text)
               ELSE interrupt_handler_run(messages[t], store, resumes[t], <<v>>, text)
    IN  acc.outcome # "fail"

\* threads whose last reply reports the suspension they are in
ReportedSuspensions ==
  {t \in Threads : status[t] = "interrupted" /\ reply[t].status = "interrupted"}

\* the action names the last reply of the thread lists
ListedActions(t) == Range(reply[t].interrupt[1].allowed_actions)

\* C35: every action name in allowed_actions of an interrupted reply is a
\* verdict type the resume call accepts and the handler applies to the
\* pending request without error, and every verdict type the handler applies
\* without error to the request is listed.
C35_AllowedActionsAreVerdicts ==
  \A t \in ReportedSuspensions :
    /\ ListedActions(t) \subseteq VerdictTypes
    /\ \A type \in ListedActions(t) : AppliesWithoutError(t, type)
    /\ \A type \in VerdictTypes : AppliesWithoutError(t, type) => type \in ListedActions(t)

\* what is left of it when the listed name respond is read as the verdict
\* type response and a Question review is left aside
C35_ListedUpToNaming ==
  \A t \in ReportedSuspensions :
    pending[t][1].action # "Question" =>
      LET listed == {IF a = "respond" THEN "response" ELSE a : a \in ListedActions(t)}
      IN  \A type \in VerdictTypes : AppliesWithoutError(t, type) <=> type \in listed

\* the namespaces the verdict handling of a node may update
UpdatedBy(node) ==
  IF node = "triage_interrupt_handler" THEN {TRIAGE_NS}
  ELSE IF node = "interrupt_handler" THEN {TRIAGE_NS, RESPONSE_NS, CAL_NS}
  ELSE {}

\* C36: in a HITL run update_memory never finds its namespace empty: every
\* update was shown a stored profile, not the "No existing preferences"
\* sentinel, because a get_memory of an earlier node of the run has seeded
\* the namespace; a run that stands before a node that handles verdicts has
\* every namespace that node may update already filled.
C36_UpdateFindsProfile ==
  \A t \in Threads : variant[t] = HITL =>
    /\ \A p \in AllUpdates(t) : log[t][p].args # NO_EXISTING
    /\ nxt[t] # None => \A ns \in UpdatedBy(nxt[t]) : StoreGet(store, ns) # None

\* C36 witness: an edit or response verdict was applied and its update was
\* shown the default profile that llm_call had seeded
C36_Witness ==
  \E t \in Threads : \E p \in UpdatesOf(t, RESPONSE_NS) :
    /\ variant[t] = HITL
    /\ log[t][p].args = DEFAULT_RESPONSE_PREFERENCES
    /\ StoreGet(store, RESPONSE_NS) \in LLMTexts

\* C37: a get_memory call that finds a profile in its namespace returns that
\* profile and writes nothing, whatever default it was given and whichever
\* caller stored the profile: the call has returned with its read, so no put
\* of its default follows, and only a call whose read found nothing stores
\* its default.
C37_GetMemoryKeepsProfile ==
  [][\A t \in Threads :
       /\ (ReadStep(t, "get_memory") /\ StoreGet(store, memory_call'[t].ns) # None) =>
            LET ns == memory_call'[t].ns
            IN  /\ store' = store
                /\ memory_call'[t].pc = "returned"
                /\ memory_call'[t].value = StoreGet(store, ns)
                /\ \A other \in Defaults \cup {None} :
                     /\ get_memory_value(store, ns, other) = StoreGet(store, ns)
                     /\ get_memory_store(store, ns, other) = store
       /\ PutStep(t, "get_memory") =>
            /\ memory_call[t].value = None /\ memory_call[t].pc = "absent"
            /\ \A o \in Namespaces \ {memory_call[t].ns} : store'[o] = store[o]
    ]_vars

\* C37 witness: a get_memory call was given the default, found the text an
\* update_memory of the other caller had stored, returned it, and the text is
\* still stored
C37_Witness ==
  \E t, u \in Threads :
    /\ t # u
    /\ memory_call[t].op = "get_memory" /\ memory_call[t].pc = "returned"
    /\ memory_call[t].arg = DefaultOf(memory_call[t].ns)
    /\ memory_call[t].value \in SummarizerTexts
    /\ memory_call[u].op = "update_memory" /\ memory_call[u].pc = "returned"
    /\ memory_call[u].ns = memory_call[t].ns /\ memory_call[u].arg = memory_call[t].value
    /\ store[memory_call[t].ns] = memory_call[t].value

\* the stronger reading, over calls that overlap: no put of a default ever
\* replaces a profile, also one stored between the get and the put of the
\* same get_memory call
C37_DefaultNeverReplacesProfile ==
  [][\A t \in Threads :
       PutStep(t, "get_memory") =>
         StoreGet(store, memory_call[t].ns) \in {None, StoreGet(store', memory_call[t].ns)}]_vars

\* C38: with every review answered by an allowed verdict, a HITL run whose
\* tool-selection step has emitted a turn containing Done reaches Terminal: it
\* is not handed back to the tool-selection step once that turn has been
\* dispatched, so the response loop ends with the Done signal.
C38_DoneTurnTerminates ==
  \A t \in Threads :
    (variant[t] = HITL /\ status[t] = "running" /\ nxt[t] = "llm_call") => DoneTurns(t) = {}

\* what does hold: a turn whose first tool call is Done ends the run
C38_DoneFirstTerminates ==
  \A t \in Threads :
    (variant[t] = HITL /\ messages[t] # <<>> /\ messages[t][Len(messages[t])].role = "ai") =>
      LET last_message == messages[t][Len(messages[t])]
      IN  last_message.tool_calls[1].name = "Done" => (nxt[t] = END /\ status[t] = "completed")

\* two characters that are the same letter in either case
SameLetter(a, b) ==
  a = b \/ {a, b} \in {{"D", "d"}, {"O", "o"}, {"N", "n"}, {"E", "e"}}

SameIgnoringCase(x, y) ==
  Len(x) = Len(y) /\ \A i \in 1..Len(x) : SameLetter(x[i], y[i])

IsLowerCase(x) == \A i \in 1..Len(x) : x[i] \notin {"D", "O", "N", "E"}

\* the tool calls of all messages of the run under test, as (message, call) positions
CallsOfRun ==
  {<<i, k>> \in (1..Len(test_run.messages)) \X (1..MaxProposed) :
     k <= Len(test_run.messages[i].tool_calls)}

\* C39: extract_tool_calls returns, in message order, exactly the lower-cased
\* names of all tool calls of all messages, messages without tool calls adding
\* nothing; the test therefore passes exactly when every expected name is the
\* name of some tool call of the run up to case, whatever the order of the
\* calls and however often a tool was called, and missing_calls lists the
\* expected names that are not.
C39_ExtractToolCalls ==
  test_run.pc # "running" =>
    LET msgs == test_run.messages
        extracted == test_run.extracted_tool_calls
        WasCalled(call) == \E p \in CallsOfRun : SameIgnoringCase(call, msgs[p[1]].tool_calls[p[2]].name)
    IN  /\ Len(extracted) = SumCalls(msgs)
        /\ \A p \in CallsOfRun :
             LET at == SumCalls(SubSeq(msgs, 1, p[1] - 1)) + p[2]
             IN  /\ IsLowerCase(extracted[at])
                 /\ SameIgnoringCase(extracted[at], msgs[p[1]].tool_calls[p[2]].name)
        /\ test_run.pc \in {"passed", "failed"} =>
             /\ test_run.pc = "passed" <=> \A j \in 1..Len(test_run.expected_calls) :
                                             WasCalled(test_run.expected_calls[j])
             /\ test_run.missing_calls =
                  SelectSeq(test_run.expected_calls, LAMBDA call : ~WasCalled(call))

\* C39 witness: the test passed on a run of two messages, the second without
\* tool calls, where the expected name is spelled in capitals, the tool was
\* called as Done, and Done was not the first call
C39_Witness ==
  /\ test_run.pc = "passed"
  /\ test_run.expected_calls = <<<<"D", "O", "N", "E">>>>
  /\ Len(test_run.messages) = 2 /\ test_run.messages[2].role = "tool"
  /\ Len(test_run.messages[1].tool_calls) = 2
  /\ test_run.messages[1].tool_calls[2].name = <<"D", "o", "n", "e">>
  /\ test_run.extracted_tool_calls[2] = <<"d", "o", "n", "e">>
  /\ test_run.extracted_tool_calls[1] # <<"d", "o", "n", "e">>

====
